---- MODULE Spec2Model ----
(***************************************************************************)
(* Fair-price alert services of mexc_utility_bot: the ticker pipeline, the *)
(* alert cooldown, alert delivery, and the websocket supervision of the    *)
(* MEXC and Gate.io venues.                                                *)
(*                                                                         *)
(* Prices are Python floats in the source.  They are modelled as integers  *)
(* (price ticks) and every comparison of a quotient is cross-multiplied by *)
(* the positive divisor, so the arithmetic is exact.  Timers (cooldown     *)
(* expiry, sleeps) fire at any moment after they were armed.               *)
(***************************************************************************)
EXTENDS Integers, Sequences, FiniteSets, Bags, TLC

(***************************************************************************)
(* Bounds of the model.                                                    *)
(***************************************************************************)
MaxPrice == 105          \* prices of the spread specification: 0 .. MaxPrice
MaxBatch == 2            \* tickers carried by one inbound message
MaxGateTasks == 2        \* Gate.io ticker coroutines alive at the same time
MaxTimers == 2           \* pending cooldown-expiry tasks per service
NumChats == 2            \* configured delivery targets (config.alert_chats)
MaxFailedRun == 6        \* reconnect attempts that fail in a row
MaxConstituents == 2     \* constituents of a Gate.io index
MaxInFlight == 2         \* ticker coroutines alive at once where both venues run
MaxStaleThreads == 2     \* Gate.io transport threads that are winding down

(***************************************************************************)
(* Program constants.                                                      *)
(***************************************************************************)
threshold == 5                   \* percent, _should_alert
max_consecutive_failures == 5    \* run_monitoring_loop
max_backoff == 60                \* seconds, MexcWebSocketClient.reconnect

Venues == {"MEXC", "GATE.IO"}
RawIds == {"BTC_USDT", "ETH_USDT"}
Absent == "<absent>"             \* the key is not in the ticker dict

Abs(x) == IF x < 0 THEN 0 - x ELSE x

(***************************************************************************)
(* Values handed to _should_alert: a number, or something that is not one  *)
(* (None, a string): [num |-> BOOLEAN, val |-> Int].                       *)
(***************************************************************************)
Num(x) == [num |-> TRUE, val |-> x]
NotANumber == [num |-> FALSE, val |-> 0]

(***************************************************************************)
(* The try body of _should_alert.  Comparing a non-number with 0 raises    *)
(* TypeError.  spread_pct = (last - fair) / fair * 100 with fair > 0, so   *)
(* abs(spread_pct) >= threshold is compared after multiplying by fair.     *)
(***************************************************************************)
spread_num(last_price, fair_price) == (last_price - fair_price) * 100

should_alert_body_no_guard(last_price, fair_price) ==
    IF ~last_price.num \/ ~fair_price.num THEN "TypeError"
    ELSE IF fair_price.val = 0 THEN "ZeroDivisionError"
    ELSE IF Abs(spread_num(last_price.val, fair_price.val)) >= threshold * Abs(fair_price.val)
         THEN "True" ELSE "False"

should_alert_body(last_price, fair_price) ==
    IF ~last_price.num \/ ~fair_price.num THEN "TypeError"
    ELSE IF fair_price.val <= 0 \/ last_price.val <= 0 THEN "False"
    ELSE IF Abs(spread_num(last_price.val, fair_price.val)) >= threshold * fair_price.val
         THEN "True" ELSE "False"

(* The try body alone, with no except clause around it. *)
should_alert_uncaught(last_price, fair_price) == should_alert_body(last_price, fair_price)

(* _should_alert: (ValueError, TypeError) and every other Exception of the *)
(* body are caught and answer False.                                       *)
_should_alert(last_price, fair_price) ==
    LET r == should_alert_body(last_price, fair_price)
    IN  IF r \in {"True", "False"} THEN r ELSE "False"

(***************************************************************************)
(* Raw tickers.  A price field is a number, a text that float() rejects,   *)
(* or absent (the .get default "0" applies).                               *)
(***************************************************************************)
RawNum(x) == [kind |-> "num", val |-> x]

PipelinePrices == {0, 95, 100}
RawPrices == {RawNum(x) : x \in PipelinePrices} \cup {[kind |-> "text", val |-> 0], [kind |-> "absent", val |-> 0]}
RawTickers == [id : RawIds \cup {"", Absent}, last : RawPrices, fair : RawPrices]

(* float(ticker.get(key, "0")) *)
to_float(raw) ==
    CASE raw.kind = "absent" -> [ok |-> TRUE, val |-> 0]
      [] raw.kind = "num"    -> [ok |-> TRUE, val |-> raw.val]
      [] OTHER               -> [ok |-> FALSE, val |-> 0]

(* str.replace("_", "/") on the instrument ids of the model *)
replace_underscore(s) ==
    CASE s = "BTC_USDT" -> "BTC/USDT"
      [] s = "ETH_USDT" -> "ETH/USDT"
      [] OTHER          -> s

(* The key under which a venue keeps an instrument in alerted_symbols;     *)
(* "" when the ticker carries no usable id.                                *)
mexc_symbol(t) == replace_underscore(IF t.id = Absent THEN "" ELSE t.id)
gate_contract_name(t) == IF t.id = Absent THEN "" ELSE t.id

Keys(v) == IF v = "MEXC" THEN {replace_underscore(r) : r \in RawIds} ELSE RawIds

(* spread_pct > 0 -> SHORT, else LONG (fair_price > 0 when this is reached) *)
alert_type_inverted(last_price, fair_price) ==
    IF spread_num(last_price, fair_price) < 0 THEN "SHORT" ELSE "LONG"

alert_type_of(last_price, fair_price) ==
    IF spread_num(last_price, fair_price) > 0 THEN "SHORT" ELSE "LONG"

(***************************************************************************)
(* The head of _process_mexc_ticker / _process_gate_ticker: the id and the *)
(* two prices of a raw ticker, or the reason why the method returns early. *)
(***************************************************************************)
Normalized(key, t) ==
    IF key = "" THEN [key |-> "", ok |-> FALSE, last |-> 0, fair |-> 0]
    ELSE LET l == to_float(t.last)
             f == to_float(t.fair)
         IN  IF ~l.ok \/ ~f.ok THEN [key |-> key, ok |-> FALSE, last |-> 0, fair |-> 0]
             ELSE [key |-> key, ok |-> TRUE, last |-> l.val, fair |-> f.val]

normalize(v, t) ==
    IF v = "MEXC" THEN Normalized(mexc_symbol(t), t) ELSE Normalized(gate_contract_name(t), t)

Tickers == [v \in Venues |-> {normalize(v, t) : t \in RawTickers}]

(* A ticker that is unusable for alerting: no id, a price that is not a    *)
(* number, or a price that is not positive.                                *)
Unusable(n) == n.key = "" \/ ~n.ok \/ n.last <= 0 \/ n.fair <= 0
UnusableTickers == [v \in Venues |-> {n \in Tickers[v] : Unusable(n)}]

(***************************************************************************)
(* The rest of the method up to its first suspension (the await of         *)
(* _send_alert): what becomes of ticker n when the venue's cooldown set is *)
(* alerted.                                                                *)
(***************************************************************************)
Outcome(kind, n) ==
    [kind |-> kind, key |-> n.key, last |-> n.last, fair |-> n.fair,
     alert_type |-> IF kind = "alert" THEN alert_type_of(n.last, n.fair) ELSE ""]

process_ticker(n, alerted) ==
    IF n.key = "" THEN Outcome("skip_id", n)
    ELSE IF ~n.ok THEN Outcome("skip_price", n)
    ELSE IF _should_alert(Num(n.last), Num(n.fair)) # "True" THEN Outcome("no_signal", n)
    ELSE IF n.key \in alerted THEN Outcome("cooldown", n)
    ELSE Outcome("alert", n)

(***************************************************************************)
(* Alert enrichment.  Each get_* method awaits one connector call whose    *)
(* outcome is "ok" (usable payload), "empty" (ok, nothing usable),         *)
(* "not_ok" or "raise", and wraps its body in try/except Exception.  A     *)
(* result of Raised stands for an exception leaving the method.            *)
(***************************************************************************)
FetchOutcomes == {"ok", "empty", "not_ok", "raise"}
Raised == "<raised>"

get_index_info_uncaught(v, fetch) ==
    IF fetch = "raise" THEN Raised
    ELSE IF fetch = "ok" THEN "weights" ELSE v

get_index_info(v, fetch) ==
    IF fetch = "ok" THEN "weights" ELSE v

get_dex_info(v, fetch) ==
    IF fetch = "ok" THEN "links" ELSE "N/A"

(* BuyLimitCalculator.calculate_buy_limit_from_data on _get_contract_data  *)
calculate_buy_limit_from_data(contract_data) ==
    IF contract_data = "contract" THEN "$limit" ELSE "API Required"

get_buying_limit_info(v, fetch) ==
    IF fetch = "raise" THEN "Error"
    ELSE calculate_buy_limit_from_data(IF fetch = "ok" THEN "contract" ELSE "None")

(***************************************************************************)
(* The delivery loop of _send_alert over config.alert_chats (chats 1 ..    *)
(* NumChats in list order).  primary[c] / fallback[c] tell whether         *)
(* Telegram accepts the MarkdownV2 / the simplified message for chat c.    *)
(***************************************************************************)
AlertChats == 1 .. NumChats
NoSends == [log |-> << >>, sent_count |-> 0]
Attempt(c, mode, ok) == [chat |-> c, mode |-> mode, ok |-> ok]

RECURSIVE send_loop_abort_on_reject(_, _, _, _)
send_loop_abort_on_reject(c, primary, fallback, acc) ==
    IF c > NumChats THEN acc
    ELSE IF primary[c]
         THEN send_loop_abort_on_reject(c + 1, primary, fallback,
                  [log |-> Append(acc.log, Attempt(c, "MarkdownV2", TRUE)),
                   sent_count |-> acc.sent_count + 1])
         ELSE [log |-> Append(acc.log, Attempt(c, "MarkdownV2", FALSE)),
               sent_count |-> acc.sent_count]

RECURSIVE send_loop(_, _, _, _)
send_loop(c, primary, fallback, acc) ==
    IF c > NumChats THEN acc
    ELSE IF primary[c]
         THEN send_loop(c + 1, primary, fallback,
                  [log |-> Append(acc.log, Attempt(c, "MarkdownV2", TRUE)),
                   sent_count |-> acc.sent_count + 1])
         ELSE LET tried == Append(Append(acc.log, Attempt(c, "MarkdownV2", FALSE)),
                                  Attempt(c, "simple", fallback[c]))
              IN  send_loop(c + 1, primary, fallback,
                      [log |-> tried,
                       sent_count |-> acc.sent_count + (IF fallback[c] THEN 1 ELSE 0)])

(***************************************************************************)
(* _send_alert: enrichment, then delivery.  enr gives the outcome of the   *)
(* index, dex and contract-detail calls.  An exception that reaches the    *)
(* outer except ends the method before anything is sent.                   *)
(***************************************************************************)
EnrichmentOutcomes == [index : FetchOutcomes, dex : FetchOutcomes, limit : FetchOutcomes]
DeliveryOutcomes == [AlertChats -> BOOLEAN]

_send_alert(v, enr, primary, fallback) ==
    LET index_info == get_index_info(v, enr.index)
        dex_info == get_dex_info(v, enr.dex)
        buying_limit_info == IF v = "MEXC" THEN get_buying_limit_info(v, enr.limit) ELSE ""
        aborted == Raised \in {index_info, dex_info, buying_limit_info}
        sends == IF aborted THEN NoSends ELSE send_loop(1, primary, fallback, NoSends)
    IN  [aborted |-> aborted, index_info |-> index_info, dex_info |-> dex_info,
         buying_limit_info |-> buying_limit_info,
         log |-> sends.log, sent_count |-> sends.sent_count]

(* What _send_alert can report as sent_count, over every outcome of its   *)
(* connector calls and of Telegram.                                        *)
SentCounts ==
    [v \in Venues |->
        {_send_alert(v, enr, primary, fallback).sent_count :
            enr \in EnrichmentOutcomes, primary \in DeliveryOutcomes,
            fallback \in DeliveryOutcomes}]

(***************************************************************************)
(* Python strings of the aggregated view are sequences of characters, so   *)
(* that str.lower(), the `in` test and the f-string of the group key are   *)
(* computed as Python computes them.                                       *)
(***************************************************************************)
(* The lower-case form of one character. *)
lower_char(c) ==
    LET UpperCase == <<"A","B","C","D","E","F","G","H","I","J","K","L","M","N","O","P","Q","R","S","T","U","V","W","X","Y","Z">>
        LowerCase == <<"a","b","c","d","e","f","g","h","i","j","k","l","m","n","o","p","q","r","s","t","u","v","w","x","y","z">>
    IN  IF \E i \in DOMAIN UpperCase : UpperCase[i] = c
        THEN LowerCase[CHOOSE i \in DOMAIN UpperCase : UpperCase[i] = c]
        ELSE c

(* str.lower() *)
str_lower(s) == [i \in DOMAIN s |-> lower_char(s[i])]

(* sub in s *)
str_contains(sub, s) ==
    \E i \in 1 .. (Len(s) - Len(sub) + 1) : SubSeq(s, i, i + Len(sub) - 1) = sub

(* JSON null in a payload: Python None, which is not a str.  The element   *)
(* of the tuple is no character.                                           *)
None == <<"None">>


(* Network names as the venues spell them. *)
NetworkNames ==
    {<<"B", "N", "B", " ", "S", "m", "a", "r", "t", " ", "C", "h", "a", "i", "n", " ", "(", "B", "E", "P", "2", "0", ")">>,
     <<"B", "S", "C">>,
     <<"b", "e", "p", "2", "0">>,
     <<"B", "E", "P", "2", "0">>,
     <<"E", "t", "h", "e", "r", "e", "u", "m", " ", "(", "E", "R", "C", "2", "0", ")">>,
     <<"E", "T", "H">>,
     <<"E", "R", "C", "2", "0">>,
     <<"S", "O", "L">>,
     <<"S", "o", "l", "a", "n", "a">>,
     <<"M", "A", "T", "I", "C">>,
     <<"P", "o", "l", "y", "g", "o", "n">>,
     <<>>}
(* Contract addresses. *)
Addresses == {<<"0", "x", "A", "b">>, <<"0", "x", "a", "b">>, <<"0", "x", "C", "D">>, <<>>}

(* CexAggregatorService._normalize_network_name *)
_normalize_network_name(network) ==
    LET network_lower == str_lower(network)
    IN  IF /\ str_contains(<<"b", "n", "b">>, network_lower)
           /\ \/ str_contains(<<"s", "m", "a", "r", "t", " ", "c", "h", "a", "i", "n">>, network_lower)
              \/ str_contains(<<"b", "e", "p", "2", "0">>, network_lower)
              \/ str_contains(<<"b", "s", "c">>, network_lower)
        THEN <<"B", "S", "C">>
        ELSE IF \/ str_contains(<<"p", "o", "l", "y", "g", "o", "n">>, network_lower)
                \/ str_contains(<<"m", "a", "t", "i", "c">>, network_lower)
        THEN <<"P", "o", "l", "y", "g", "o", "n">>
        ELSE IF /\ str_contains(<<"e", "t", "h">>, network_lower)
                /\ \/ str_contains(<<"e", "t", "h", "e", "r", "e", "u", "m">>, network_lower)
                   \/ str_contains(<<"e", "r", "c", "2", "0">>, network_lower)
        THEN <<"E", "T", "H">>
        ELSE IF str_contains(<<"s", "o", "l">>, network_lower) THEN <<"S", "O", "L">>
        ELSE network

(***************************************************************************)
(* The grouping of contract entries in _build_aggregated_message.  A       *)
(* contract entry is [address, network]; contract_groups is the dict       *)
(* contract_groups in insertion order.                                     *)
(***************************************************************************)
Contract(address, network) == [address |-> address, network |-> network]

(* The key with the address as it is spelled. *)
contract_key_case_sensitive(contract) ==
    contract.address \o <<"|">> \o _normalize_network_name(contract.network)

(* key = f"{addr}|{network}" with addr = address.lower() *)
contract_key(contract) ==
    str_lower(contract.address) \o <<"|">> \o _normalize_network_name(contract.network)

(* One pass of a `for contract in ...contracts` loop body. *)
add_contract(groups, contract, exchange) ==
    LET key == contract_key(contract)
    IN  IF \E i \in DOMAIN groups : groups[i].key = key
        THEN [i \in DOMAIN groups |->
                 IF groups[i].key = key
                 THEN [groups[i] EXCEPT !.exchanges = Append(@, exchange)]
                 ELSE groups[i]]
        ELSE Append(groups, [key |-> key, address |-> contract.address,
                             network |-> _normalize_network_name(contract.network),
                             exchanges |-> <<exchange>>])

RECURSIVE collect_contracts(_, _, _)
collect_contracts(groups, contracts, exchange) ==
    IF contracts = << >> THEN groups
    ELSE collect_contracts(add_contract(groups, Head(contracts), exchange),
                           Tail(contracts), exchange)

(* .lower() of an address or of a network that is None raises              *)
(* AttributeError.                                                         *)
has_none(contracts) ==
    \E i \in DOMAIN contracts : contracts[i].address = None \/ contracts[i].network = None

contract_groups(mexc_contracts, gate_contracts) ==
    IF has_none(mexc_contracts) \/ has_none(gate_contracts)
    THEN [raised |-> TRUE, groups |-> << >>]
    ELSE [raised |-> FALSE,
          groups |-> collect_contracts(collect_contracts(<< >>, mexc_contracts, "MEXC"),
                                       gate_contracts, "GATE")]

(* What a venue contributes to the view: no entry, or its first network.   *)
ContractLists ==
    {<< >>} \cup {<<Contract(a, n)>> : a \in Addresses, n \in NetworkNames}

(***************************************************************************)
(* get_aggregated_info.  Its upstream calls, and what each of them can     *)
(* answer: "ok" (ok with the data of the symbol), "null" (ok, with the     *)
(* field the aggregator reads being JSON null), "not_ok" ((False, err,     *)
(* None)) or "raise" (the call raises).                                    *)
(***************************************************************************)
MexcCalls == {"fetch_contract_detail", "fetch_futures_ticker", "fetch_wallet_networks"}
GateCalls == {"fetch_futures_contracts", "fetch_futures_tickers", "fetch_spot_tickers",
              "fetch_currency_info"}
SpotCalls == {"get_price_GATE", "get_price_MEXC"}
UpstreamCalls == MexcCalls \cup GateCalls \cup SpotCalls

(* The calls whose payload the aggregator dereferences: lastPrice of the   *)
(* ticker, contract of the first network, name of a futures contract, addr *)
(* of the first chain.                                                     *)
NullableCalls == {"fetch_futures_ticker", "fetch_wallet_networks", "fetch_futures_contracts",
                  "fetch_currency_info"}
CallOutcomes(c) == {"ok", "not_ok", "raise"} \cup (IF c \in NullableCalls THEN {"null"} ELSE {})
Failed(o) == o \in {"not_ok", "raise"}

NoData == [present |-> FALSE, futures_url |-> FALSE, futures_price |-> FALSE,
           spot_url |-> FALSE, contracts |-> << >>]

(* _get_mexc_data on the results of its gather(..., return_exceptions=True) *)
_get_mexc_data(o) ==
    [data |-> [present |-> TRUE,
               futures_url |-> o["fetch_contract_detail"] = "ok",
               futures_price |-> o["fetch_futures_ticker"] = "ok",
               spot_url |-> TRUE,
               contracts |-> CASE o["fetch_wallet_networks"] = "ok" ->
                                      <<Contract(<<"0", "x", "A", "b">>, <<"B", "S", "C">>)>>
                               [] o["fetch_wallet_networks"] = "null" ->
                                      <<Contract(None, <<"B", "S", "C">>)>>
                               [] OTHER -> << >>],
     errors |-> << >>]

(* _get_gate_data: contract.get('name', '').upper() on a null name raises  *)
(* inside the try; the except answers (None, ["Gate.io error: ..."]).      *)
_get_gate_data(o) ==
    IF o["fetch_futures_contracts"] = "null"
    THEN [data |-> NoData, errors |-> <<"Gate.io error">>]
    ELSE [data |-> [present |-> TRUE,
                    futures_url |-> o["fetch_futures_contracts"] = "ok",
                    futures_price |-> o["fetch_futures_tickers"] = "ok",
                    spot_url |-> o["fetch_spot_tickers"] = "ok",
                    contracts |-> CASE o["fetch_currency_info"] = "ok" ->
                                           <<Contract(<<"0", "x", "a", "b">>, <<"B", "N", "B", " ", "S", "m", "a", "r", "t", " ", "C", "h", "a", "i", "n", " ", "(", "B", "E", "P", "2", "0", ")">>)>>
                                    [] o["fetch_currency_info"] = "null" ->
                                           <<Contract(None, <<"B", "N", "B", " ", "S", "m", "a", "r", "t", " ", "C", "h", "a", "i", "n", " ", "(", "B", "E", "P", "2", "0", ")">>)>>
                                    [] OTHER -> << >>],
          errors |-> << >>]

(* _get_spot_prices: the venues that have a price in the dict. *)
_get_spot_prices(o) ==
    {v \in {"GATE", "MEXC"} :
        o[IF v = "GATE" THEN "get_price_GATE" ELSE "get_price_MEXC"] = "ok"}

(* The lines of one venue in the Exchanges Info block: TRUE where the      *)
(* field shows data, FALSE where it shows N/A.                             *)
exchange_lines(data, has_spot_price) ==
    [spot_price |-> has_spot_price,
     futures_price |-> data.present /\ data.futures_price,
     network |-> data.present /\ data.contracts # << >>,
     spot_link |-> has_spot_price /\ data.present /\ data.spot_url,
     futures_link |-> data.present /\ data.futures_url]

(* _build_aggregated_message showing for a venue without a spot price the   *)
(* price of the other venue.                                               *)
_build_aggregated_message_any_price(mexc_data, gate_data, spot_prices) ==
    LET groups == IF mexc_data.contracts # << >> \/ gate_data.contracts # << >>
                  THEN contract_groups(mexc_data.contracts, gate_data.contracts)
                  ELSE [raised |-> FALSE, groups |-> << >>]
    IN  [raised |-> groups.raised,
         groups |-> groups.groups,
         mexc |-> exchange_lines(mexc_data, spot_prices # {}),
         gate |-> exchange_lines(gate_data, spot_prices # {})]

(* _build_aggregated_message *)
_build_aggregated_message(mexc_data, gate_data, spot_prices) ==
    LET groups == IF mexc_data.contracts # << >> \/ gate_data.contracts # << >>
                  THEN contract_groups(mexc_data.contracts, gate_data.contracts)
                  ELSE [raised |-> FALSE, groups |-> << >>]
    IN  [raised |-> groups.raised,
         groups |-> groups.groups,
         mexc |-> exchange_lines(mexc_data, "MEXC" \in spot_prices),
         gate |-> exchange_lines(gate_data, "GATE" \in spot_prices)]

(* get_aggregated_info once all its upstream calls have answered o. *)
get_aggregated_info(o) ==
    LET mexc == _get_mexc_data(o)
        gate == _get_gate_data(o)
        message == _build_aggregated_message(mexc.data, gate.data, _get_spot_prices(o))
    IN  [called |-> TRUE, raised |-> message.raised, message |-> message,
         errors |-> mexc.errors \o gate.errors]

(***************************************************************************)
(* The REST connectors.  An HTTP exchange ends in a failure or in status   *)
(* 200 with a body; a body is invalid JSON or one of these JSON values:    *)
(*   "dict"            an object with the fields the caller reads          *)
(*   "dict_data_null"  an object whose "data" is null, nothing else        *)
(*   "empty_dict"      {}                                                  *)
(*   "list"            a non-empty array of objects                        *)
(*   "empty_list"      []                                                  *)
(*   "null"            null                                                *)
(* A connector call answers (ok, err, data) or raises.                     *)
(***************************************************************************)
HttpOutcomes ==
    {"non_200", "invalid_json", "timeout", "client_error", "exception"}
        \cup {"dict", "dict_data_null", "empty_dict", "list", "empty_list", "null"}

Truthy(data) == data \in {"dict", "dict_data_null", "list"}
IsDict(data) == data \in {"dict", "dict_data_null", "empty_dict"}
IsList(data) == data \in {"list", "empty_list"}

Tri(ok, data) == [raised |-> FALSE, ok |-> ok, data |-> data]
Raises == [raised |-> TRUE, ok |-> FALSE, data |-> "None"]

(* HttpClient.get_json *)
get_json(session_started, h) ==
    IF ~session_started THEN Raises
    ELSE IF h \in {"non_200", "invalid_json", "timeout", "client_error", "exception"}
         THEN Tri(FALSE, "None")
    ELSE Tri(TRUE, h)

(* extract_contract_detail on a dict: extract_first_or_dict(data.get(      *)
(* "data")), then `for item in data.get("data", [])`, which iterates None  *)
(* when "data" is null.                                                    *)
extract_contract_detail(data) ==
    CASE data = "dict"           -> Tri(TRUE, "dict")
      [] data = "dict_data_null" -> Raises
      [] OTHER                   -> Tri(FALSE, "None")

(* MexcClient.fetch_futures_ticker *)
fetch_futures_ticker(r) ==
    IF r.raised THEN Raises
    ELSE IF ~r.ok \/ ~Truthy(r.data) THEN Tri(FALSE, "None")
    ELSE IF ~IsDict(r.data) THEN Raises
    ELSE IF r.data = "dict" THEN Tri(TRUE, "dict") ELSE Tri(FALSE, "None")

(* MexcClient.fetch_contract_detail: the call with the symbol, then the    *)
(* fallback call without it.                                               *)
fetch_contract_detail(r, fallback) ==
    IF r.raised THEN Raises
    ELSE IF r.ok /\ IsDict(r.data) THEN extract_contract_detail(r.data)
    ELSE IF fallback.raised THEN Raises
    ELSE IF ~fallback.ok \/ ~Truthy(fallback.data) \/ ~IsDict(fallback.data)
         THEN Tri(FALSE, "None")
    ELSE extract_contract_detail(fallback.data)

(* MexcClient.fetch_index_weights *)
fetch_index_weights(r) ==
    IF r.raised THEN Raises
    ELSE IF ~r.ok \/ ~Truthy(r.data) THEN Tri(FALSE, "None")
    ELSE IF ~IsDict(r.data) THEN Raises
    ELSE IF r.data = "dict" THEN Tri(TRUE, "dict") ELSE Tri(FALSE, "None")

(* MexcClient.fetch_spot_24h *)
fetch_spot_24h(r) ==
    IF r.raised THEN Raises
    ELSE IF ~r.ok \/ ~Truthy(r.data) THEN Tri(FALSE, "None")
    ELSE IF ~IsDict(r.data) THEN Raises
    ELSE IF r.data = "dict" THEN Tri(TRUE, "dict") ELSE Tri(FALSE, "None")

(* MexcClient.fetch_wallet_networks *)
fetch_wallet_networks(has_mexc_credentials, r) ==
    IF ~has_mexc_credentials THEN Tri(FALSE, "None")
    ELSE IF r.raised THEN Raises
    ELSE IF ~r.ok \/ ~Truthy(r.data) THEN Tri(FALSE, "None")
    ELSE IF ~IsList(r.data) THEN Tri(FALSE, "None")
    ELSE Tri(TRUE, "list")

(* GateClient.fetch_futures_contracts, fetch_futures_tickers and           *)
(* fetch_spot_tickers                                                      *)
gate_fetch_list(r) ==
    IF r.raised THEN Raises
    ELSE IF ~r.ok THEN Tri(FALSE, "None")
    ELSE IF ~IsList(r.data) THEN Tri(FALSE, "None")
    ELSE Tri(TRUE, r.data)

(* GateClient.fetch_currency_info *)
fetch_currency_info(r) ==
    IF r.raised THEN Raises
    ELSE IF ~r.ok THEN Tri(FALSE, "None")
    ELSE IF ~IsDict(r.data) THEN Tri(FALSE, "None")
    ELSE Tri(TRUE, r.data)

(* GateClient.fetch_index_constituents *)
fetch_index_constituents(r) ==
    IF r.raised THEN Raises
    ELSE IF r.ok /\ r.data \in {"dict", "dict_data_null"} THEN Tri(TRUE, r.data)
    ELSE Tri(FALSE, "None")

ConnectorCalls ==
    [method : {"get_json", "fetch_futures_ticker", "fetch_contract_detail",
               "fetch_index_weights", "fetch_spot_24h", "fetch_wallet_networks",
               "fetch_futures_contracts", "fetch_futures_tickers", "fetch_spot_tickers",
               "fetch_currency_info", "fetch_index_constituents"},
     session_started : BOOLEAN, has_mexc_credentials : BOOLEAN,
     first : HttpOutcomes, second : HttpOutcomes]

(* The connector call c: its first HTTP exchange ends in c.first, a second *)
(* one, where the method makes it, in c.second.                            *)
connector_call(c) ==
    LET r == get_json(c.session_started, c.first)
        fallback == get_json(c.session_started, c.second)
    IN  CASE c.method = "get_json"                 -> r
          [] c.method = "fetch_futures_ticker"     -> fetch_futures_ticker(r)
          [] c.method = "fetch_contract_detail"    -> fetch_contract_detail(r, fallback)
          [] c.method = "fetch_index_weights"      -> fetch_index_weights(r)
          [] c.method = "fetch_spot_24h"           -> fetch_spot_24h(r)
          [] c.method = "fetch_wallet_networks"    ->
                 fetch_wallet_networks(c.has_mexc_credentials, r)
          [] c.method = "fetch_currency_info"      -> fetch_currency_info(r)
          [] c.method = "fetch_index_constituents" -> fetch_index_constituents(r)
          [] OTHER                                 -> gate_fetch_list(r)

(***************************************************************************)
(* The websocket clients: subscribe_tickers and the handling of one        *)
(* inbound message.                                                        *)
(***************************************************************************)

(* subscribe_tickers that registers the callback before it looks at the    *)
(* connection.                                                             *)
subscribe_tickers_registers_first(connected, ws, send_ok, registered) ==
    IF connected /\ ws = "open" /\ send_ok
    THEN [value |-> "True", sent |-> TRUE, registered |-> TRUE]
    ELSE [value |-> "False", sent |-> FALSE, registered |-> TRUE]

(* subscribe_tickers of MexcWebSocketClient and of GateWebSocketClient:    *)
(* connected is self.is_connected, ws the transport, send_ok whether       *)
(* ws.send goes through on an open transport (it raises on a closed one),  *)
(* registered whether the callback is in the handler map already.          *)
subscribe_tickers(connected, ws, send_ok, registered) ==
    IF ~connected \/ ws = "none"
    THEN [value |-> "False", sent |-> FALSE, registered |-> registered]
    ELSE IF ws = "open" /\ send_ok
    THEN [value |-> "True", sent |-> TRUE, registered |-> TRUE]
    ELSE [value |-> "False", sent |-> FALSE, registered |-> registered]

(* Inbound messages:                                                       *)
(*   "ticker"          a well-formed ticker message                        *)
(*   "invalid_json"    text that json.loads rejects                        *)
(*   "no_channel"      an object without a channel                         *)
(*   "not_an_object"   a JSON array or null: data.get raises               *)
(*   "bad_result"      the ticker channel with a payload that is no list   *)
(*   "handler_raises"  a ticker message whose processing raises            *)
(*   "control"         pong / subscription confirmation                    *)
(*   "other_channel"   a channel nobody subscribed to                      *)
MsgKinds == {"ticker", "invalid_json", "no_channel", "not_an_object", "bad_result",
             "handler_raises", "control", "other_channel"}
Malformed == {"invalid_json", "no_channel", "not_an_object", "bad_result", "handler_raises"}

Handled(delivered) == [continues |-> TRUE, clears_connected |-> FALSE, delivered |-> delivered]

(* A receive loop to which a message that cannot be parsed is fatal. *)
mexc_message_fatal(kind, registered) ==
    CASE kind = "invalid_json" ->
             [continues |-> FALSE, clears_connected |-> TRUE, delivered |-> FALSE]
      [] kind \in {"ticker", "bad_result", "handler_raises"} -> Handled(registered)
      [] OTHER -> Handled(FALSE)

(* One round of MexcWebSocketClient._message_handler after ws.recv()       *)
(* returned a message: JSONDecodeError and every other Exception continue  *)
(* the loop, _call_handler catches what the callback raises.  The ticker   *)
(* channel is handed to the callback whatever its payload.                 *)
mexc_message(kind, registered) ==
    CASE kind \in {"ticker", "bad_result", "handler_raises"} -> Handled(registered)
      [] OTHER -> Handled(FALSE)

(* GateWebSocketClient._on_message: the whole body is in try/except        *)
(* Exception; a ticker message whose result is a list is scheduled as      *)
(* _handle_ticker_results, which catches what the callback raises.         *)
gate_message(kind, registered) ==
    CASE kind \in {"ticker", "handler_raises"} -> Handled(registered)
      [] OTHER -> Handled(FALSE)

(***************************************************************************)
(* The single-venue info requests.  An upstream call answers "ok" (ok with *)
(* the data of the symbol), "missing" / "empty" (ok without it), "not_ok"  *)
(* ((False, err, None)) or "raise".  The weight of an index constituent is *)
(* a positive number, zero, a negative number, text that float() rejects,  *)
(* or JSON null.                                                           *)
(***************************************************************************)
Fallback == [fallback |-> TRUE, listed |-> << >>]

(* An index line whose listing ends at the first weight that float()       *)
(* rejects.                                                                *)
index_line_stops_at_invalid(index_constituents) ==
    IF index_constituents = None \/ Len(index_constituents) = 0 THEN Fallback
    ELSE LET rejected == {i \in DOMAIN index_constituents :
                             index_constituents[i] \in {"invalid", "null"}}
             Listed(i) == /\ index_constituents[i] = "pos"
                          /\ \A j \in rejected : i < j
             valid == SelectSeq([i \in DOMAIN index_constituents |-> i], Listed)
         IN  IF valid = << >> THEN Fallback ELSE [fallback |-> FALSE, listed |-> valid]

(* GateInfoService._build_gate_message, the index line: the positions of   *)
(* the constituents it lists, or the fallback "100% Gate.io".  float() of  *)
(* text raises ValueError and of None TypeError; both skip the             *)
(* constituent.                                                            *)
index_line(index_constituents) ==
    IF index_constituents = None \/ Len(index_constituents) = 0 THEN Fallback
    ELSE LET Listed(i) == index_constituents[i] = "pos"
             valid == SelectSeq([i \in DOMAIN index_constituents |-> i], Listed)
         IN  IF valid = << >> THEN Fallback ELSE [fallback |-> FALSE, listed |-> valid]

InfoRaises == [raised |-> TRUE, errors |-> << >>, index |-> Fallback]

(* GateInfoService.get_gate_info.  gather(return_exceptions=True) hands    *)
(* back the exception of a call that raised, and unpacking it into         *)
(* (ok, err, data) raises TypeError.  The currency and index calls are     *)
(* made only when the contract was found; the contract of a normalized     *)
(* symbol has an underlying.                                               *)
get_gate_info(o) ==
    IF o.contracts = "raise" \/ o.tickers = "raise" THEN InfoRaises
    ELSE LET contract == o.contracts = "ok"
             errors == (IF o.contracts = "not_ok" THEN <<"contracts">> ELSE << >>)
                       \o (IF o.tickers = "not_ok" THEN <<"futures tickers">> ELSE << >>)
         IN  IF ~contract
             THEN [raised |-> FALSE, errors |-> errors, index |-> index_line(None)]
             ELSE IF o.currency = "raise" \/ o.index.status = "raise" THEN InfoRaises
             ELSE [raised |-> FALSE,
                   errors |-> errors \o (IF o.currency = "not_ok" THEN <<"currency">>
                                         ELSE << >>),
                   index |-> index_line(IF o.index.status = "ok"
                                        THEN o.index.constituents ELSE None)]

(* MexcInfoService.get_cex_info (mexc_info_service.py): safe_unpack turns  *)
(* the exception of a gathered call into (False, "Exception: ...", None);  *)
(* fetch_wallet_networks is awaited on its own, outside any try, when the  *)
(* contract was found.                                                     *)
get_cex_info(o) ==
    LET Err(call, name) == IF o[call] \in {"not_ok", "raise"} THEN <<name>> ELSE << >>
        errors == Err("contract_detail", "contract") \o Err("index_weights", "index weights")
                  \o Err("futures_ticker", "futures ticker")
    IN  IF o.contract_detail # "ok"
        THEN [raised |-> FALSE, errors |-> errors, index |-> Fallback]
        ELSE IF o.networks = "raise" THEN InfoRaises
        ELSE [raised |-> FALSE,
              errors |-> errors \o (IF o.networks = "not_ok" THEN <<"networks">> ELSE << >>),
              index |-> Fallback]

(* The requests: the venue and what each upstream call answers. *)
InfoCalls ==
    LET Answers == {"ok", "missing", "not_ok", "raise"}
        Weights == {"pos", "zero", "neg", "invalid", "null"}
        Constituents == UNION {[1 .. n -> Weights] : n \in 0 .. MaxConstituents}
        IndexAnswers ==
            {[status |-> st, constituents |-> None] : st \in {"ok", "missing", "not_ok", "raise"}}
            \cup {[status |-> "ok", constituents |-> c] : c \in Constituents}
    IN  [service : {"gate"}, contracts : Answers, tickers : Answers, currency : Answers,
         index : IndexAnswers]
        \cup [service : {"mexc"}, contract_detail : Answers, index_weights : Answers,
              futures_ticker : Answers, networks : {"ok", "not_ok", "raise"}]

(***************************************************************************)
(* State.                                                                  *)
(***************************************************************************)
VARIABLES
    running,           \* the alert services started in this run
    stale_threads,     \* Gate.io: threads of closed or replaced transports that have not ended
    ws_is_connected,   \* [venue -> ws_client.is_connected of the service of that venue]
    alerted_symbols,   \* [venue -> set of keys]: BaseFairPriceAlertService.alerted_symbols
    cooldown_tasks,    \* [venue -> [key -> pending _remove_alert_cooldown tasks]]
    tasks,             \* [venue -> bag of coroutines processing a ticker message]
    triggered,         \* history: alerts triggered per key since its last cooldown removal
    expired,           \* history: keys removed by expiry, no qualifying ticker since
    last_invalid,      \* history: the ticker processed last was unusable for alerting
    sa_in, sa_out,     \* a call of _should_alert and its result
    send_in, send_out, \* a call of _send_alert and its result
    grp_in, grp_out,   \* the contract entries of the two venues and their grouping
    agg_pc,            \* position of get_aggregated_info
    agg_calls,         \* [upstream call -> "pending", "in_flight" or its outcome]
    agg_out,           \* what get_aggregated_info returned
    http_in, http_out, \* a connector call and its result
    info_in, info_out, \* a single-venue info request and its result
    handler_registered,  \* ws_client.subscriptions / message_handlers hold the ticker callback
    sub_result,        \* the last return of subscribe_tickers, and the state it was called in
    last_msg, prev_msg,  \* history: the kinds of the last two inbound messages
    last_delivered,    \* history: the last inbound message was handed to the ticker callback
    is_running,        \* BaseFairPriceAlertService.is_running
    is_connected,      \* ws_client.is_connected
    transport,         \* ws_client.ws: "none", "open", "closed_ok", "closed_error"
    subscribed,        \* the ticker subscription was issued on the current transport
    recv_pc,           \* MexcWebSocketClient._message_handler: "top", "recv", "ended"
    ping_pc,           \* MexcWebSocketClient._ping_loop: "running", "ended"
    reconnect_task,    \* MexcWebSocketClient.reconnect_task: "none", "running", "done"
    backoff,           \* local of MexcWebSocketClient.reconnect._reconnect_loop
    mon_pc,            \* position of run_monitoring_loop
    consecutive_failures,  \* local of run_monitoring_loop
    failed_run,        \* history: reconnect attempts that failed since the last success
    last_sleep,        \* history: the sleep the monitoring loop finished last
    stop_pc            \* position of BaseFairPriceAlertService.stop

pipeline_vars == <<alerted_symbols, cooldown_tasks, tasks, triggered, expired, last_invalid>>

aggregator_vars == <<grp_in, grp_out, agg_pc, agg_calls, agg_out>>

connector_vars == <<http_in, http_out>>

client_vars == <<handler_registered, sub_result, last_msg, prev_msg, last_delivered>>

pure_vars == <<sa_in, sa_out, send_in, send_out, aggregator_vars, connector_vars,
               info_in, info_out, client_vars>>

conn_vars == <<is_running, is_connected, transport, subscribed, recv_pc, ping_pc,
               reconnect_task, backoff, mon_pc, consecutive_failures, failed_run, last_sleep,
               stop_pc>>

vars == <<running, stale_threads, ws_is_connected, pipeline_vars, pure_vars, conn_vars>>

(***************************************************************************)
(* Consumers of ticker messages.  The MEXC receive loop awaits the handler *)
(* before it reads the next message: one consumer.  The Gate.io thread     *)
(* schedules one _handle_ticker_results coroutine per message with         *)
(* run_coroutine_threadsafe and does not wait for it.  tasks[v] is the bag *)
(* of the coroutines of venue v that are processing a message.             *)
(***************************************************************************)
MaxConsumers(v) == IF v = "MEXC" THEN 1 ELSE MaxGateTasks

BatchTask(n) == [pc |-> "batch", remaining |-> n, key |-> "", last |-> 0, fair |-> 0,
                 alert_type |-> ""]
NoCall == [venue |-> "", called |-> FALSE]

PipelineIdle ==
    /\ alerted_symbols = [v \in Venues |-> {}]
    /\ cooldown_tasks = [v \in Venues |-> [k \in Keys(v) |-> 0]]
    /\ tasks = [v \in Venues |-> EmptyBag]
    /\ triggered = [v \in Venues |-> [k \in Keys(v) |-> 0]]
    /\ expired = [v \in Venues |-> {}]
    /\ last_invalid = FALSE

(* No call made, no result yet. *)
NoResult == [called |-> FALSE]

AggregatorIdle ==
    /\ grp_in = [mexc |-> << >>, gate |-> << >>]
    /\ grp_out = NoResult
    /\ agg_pc = "idle"
    /\ agg_calls = [c \in UpstreamCalls |-> "pending"]
    /\ agg_out = NoResult

ConnectorIdle ==
    /\ http_in = NoResult
    /\ http_out = NoResult

(* No subscribe_tickers call and no inbound message so far. *)
InfoIdle ==
    /\ info_in = NoResult
    /\ info_out = NoResult

(* The ticker callback is registered by start(). *)
ClientIdle ==
    /\ handler_registered = (running # {})
    /\ sub_result = [value |-> "none", connected |-> FALSE, sent |-> FALSE]
    /\ last_msg = "none" /\ prev_msg = "none"
    /\ last_delivered = FALSE

PureIdle ==
    /\ sa_in = <<NotANumber, NotANumber>> /\ sa_out = "idle"
    /\ send_in = NoCall /\ send_out = NoCall
    /\ AggregatorIdle
    /\ ConnectorIdle
    /\ InfoIdle
    /\ ClientIdle

(* The service of one venue after start(): connected, subscribed, the      *)
(* client's loops and the monitoring loop running.                         *)
Started ==
    /\ running \in {{v} : v \in Venues}
    /\ stale_threads = 0
    /\ ws_is_connected = [v \in Venues |-> v \in running]
    /\ is_running = TRUE
    /\ is_connected = TRUE
    /\ transport = "open"
    /\ subscribed = TRUE
    /\ recv_pc = IF running = {"MEXC"} THEN "top" ELSE "ended"
    /\ ping_pc = IF running = {"MEXC"} THEN "running" ELSE "ended"
    /\ reconnect_task = "none"
    /\ backoff = 1
    /\ mon_pc = "check"
    /\ consecutive_failures = 0
    /\ failed_run = 0
    /\ last_sleep = 0
    /\ stop_pc = "idle"

(* Inside start(): connect_websocket() has returned True, nothing is       *)
(* subscribed yet and the monitoring loop is not created yet.              *)
Connected ==
    /\ running \in {{v} : v \in Venues}
    /\ stale_threads = 0
    /\ ws_is_connected = [v \in Venues |-> v \in running]
    /\ is_running = FALSE
    /\ is_connected = TRUE
    /\ transport = "open"
    /\ subscribed = FALSE
    /\ recv_pc = IF running = {"MEXC"} THEN "top" ELSE "ended"
    /\ ping_pc = IF running = {"MEXC"} THEN "running" ELSE "ended"
    /\ reconnect_task = "none"
    /\ backoff = 1
    /\ mon_pc = "stopped"
    /\ consecutive_failures = 0
    /\ failed_run = 0
    /\ last_sleep = 0
    /\ stop_pc = "idle"

(* No service is started: the state in which a single method is called.    *)
NotStarted ==
    /\ running = {}
    /\ stale_threads = 0
    /\ ws_is_connected = [v \in Venues |-> v \in running]
    /\ is_running = FALSE
    /\ is_connected = FALSE
    /\ transport = "none"
    /\ subscribed = FALSE
    /\ recv_pc = "ended"
    /\ ping_pc = "ended"
    /\ reconnect_task = "none"
    /\ backoff = 1
    /\ mon_pc = "stopped"
    /\ consecutive_failures = 0
    /\ failed_run = 0
    /\ last_sleep = 0
    /\ stop_pc = "idle"

One(task) == SetToBag({task})

(* The bag after task has finished its current ticker: the coroutine goes  *)
(* on with the rest of its message, or ends.                               *)
Advance(bag, task) ==
    IF task.remaining > 1
    THEN (bag (-) One(task)) (+) One(BatchTask(task.remaining - 1))
    ELSE bag (-) One(task)

(* A ticker message with n tickers reaches the pipeline of venue v. *)
OnMessage(v, n) ==
    /\ v \in running
    /\ transport = "open"
    /\ BagCardinality(tasks[v]) < MaxConsumers(v)
    /\ tasks' = [tasks EXCEPT ![v] = @ (+) One(BatchTask(n))]
    /\ UNCHANGED <<alerted_symbols, cooldown_tasks, triggered, expired, last_invalid>>
    /\ UNCHANGED <<running, stale_threads, ws_is_connected, pure_vars, conn_vars>>

(* A coroutine of venue v processes the next ticker n of its message, up   *)
(* to the await of _send_alert.                                            *)
ProcessTicker(v, task, n) ==
    /\ BagIn(task, tasks[v])
    /\ task.pc = "batch"
    /\ UNCHANGED <<alerted_symbols, cooldown_tasks>>
    /\ UNCHANGED <<running, stale_threads, ws_is_connected, pure_vars, conn_vars>>
    /\ LET o == process_ticker(n, alerted_symbols[v])
       IN  /\ last_invalid' = Unusable(n)
           /\ IF o.kind = "alert"
              THEN /\ tasks' = [tasks EXCEPT ![v] = (@ (-) One(task)) (+)
                          One([pc |-> "send", remaining |-> task.remaining,
                               key |-> o.key, last |-> o.last, fair |-> o.fair,
                               alert_type |-> o.alert_type])]
                   /\ triggered' = [triggered EXCEPT ![v][o.key] = @ + 1]
              ELSE /\ tasks' = [tasks EXCEPT ![v] = Advance(@, task)]
                   /\ UNCHANGED triggered
           /\ expired' = IF o.kind \in {"alert", "cooldown"}
                         THEN [expired EXCEPT ![v] = @ \ {o.key}]
                         ELSE expired

RECURSIVE SumOver(_, _)
SumOver(f, keys) ==
    IF keys = {} THEN 0
    ELSE LET k == CHOOSE x \in keys : TRUE IN f[k] + SumOver(f, keys \ {k})

(* The _remove_alert_cooldown tasks of venue v that are asleep. *)
PendingTimers(v) == SumOver(cooldown_tasks[v], Keys(v))

(* The return of _send_alert with the key added to the cooldown set and no *)
(* expiry task created.                                                    *)
SendDone_without_expiry_task(v, task, sent_count) ==
    /\ BagIn(task, tasks[v])
    /\ task.pc = "send"
    /\ alerted_symbols' = [alerted_symbols EXCEPT ![v] = @ \cup {task.key}]
    /\ sent_count \in 0 .. NumChats
    /\ tasks' = [tasks EXCEPT ![v] = Advance(@, task)]
    /\ UNCHANGED <<cooldown_tasks, triggered, expired, last_invalid>>
    /\ UNCHANGED <<running, stale_threads, ws_is_connected, pure_vars, conn_vars>>

(* _send_alert returns to the coroutine: the key enters the cooldown set   *)
(* and its expiry task is created (no await in between).                   *)
SendDone(v, task, sent_count) ==
    /\ BagIn(task, tasks[v])
    /\ task.pc = "send"
    /\ PendingTimers(v) < MaxTimers
    /\ alerted_symbols' = [alerted_symbols EXCEPT ![v] = @ \cup {task.key}]
    /\ cooldown_tasks' = [cooldown_tasks EXCEPT ![v][task.key] = @ + 1]
    /\ sent_count \in 0 .. NumChats       \* only logged, lines 253-256
    /\ tasks' = [tasks EXCEPT ![v] = Advance(@, task)]
    /\ UNCHANGED <<triggered, expired, last_invalid>>
    /\ UNCHANGED <<running, stale_threads, ws_is_connected, pure_vars, conn_vars>>

(* _remove_alert_cooldown(k, delay) wakes up from its sleep. *)
_remove_alert_cooldown(v, k) ==
    /\ cooldown_tasks[v][k] > 0
    /\ cooldown_tasks' = [cooldown_tasks EXCEPT ![v][k] = @ - 1]
    /\ alerted_symbols' = [alerted_symbols EXCEPT ![v] = @ \ {k}]
    /\ IF k \in alerted_symbols[v]
       THEN /\ triggered' = [triggered EXCEPT ![v][k] = 0]
            /\ expired' = [expired EXCEPT ![v] = @ \cup {k}]
       ELSE UNCHANGED <<triggered, expired>>
    /\ UNCHANGED <<tasks, last_invalid>>
    /\ UNCHANGED <<running, stale_threads, ws_is_connected, pure_vars, conn_vars>>

Init == Started /\ PipelineIdle /\ PureIdle

Next ==
    \/ \E v \in Venues, n \in 1 .. MaxBatch : OnMessage(v, n)
    \/ \E v \in Venues : \E task \in BagToSet(tasks[v]), n \in Tickers[v] :
          ProcessTicker(v, task, n)
    \/ \E task \in BagToSet(tasks["MEXC"]), c \in SentCounts["MEXC"] : SendDone("MEXC", task, c)
    \/ \E task \in BagToSet(tasks["GATE.IO"]), c \in SentCounts["GATE.IO"] :
          SendDone("GATE.IO", task, c)
    \/ \E v \in Venues : \E k \in Keys(v) : _remove_alert_cooldown(v, k)

Spec == Init /\ [][Next]_vars

(***************************************************************************)
(* Properties of the ticker pipeline (specification Spec).                 *)
(***************************************************************************)
InFlightAlerts(v) == {task \in BagToSet(tasks[v]) : task.pc = "send"}

(* C1: for every venue service and instrument, at most one alert is        *)
(* triggered between two cooldown removals of that instrument: a           *)
(* qualifying ticker that comes after an alert was triggered and before    *)
(* the cooldown expires triggers no further alert.                         *)
C1_OneAlertPerCooldown ==
    \A v \in Venues : \A k \in Keys(v) : triggered[v][k] <= 1

(* C11: on every venue the ticker messages have a single consumer: no       *)
(* message of a venue is being processed while an earlier message of that  *)
(* venue is still being processed (the awaits of _send_alert included).    *)
C11_SingleConsumer ==
    \A v \in Venues : BagCardinality(tasks[v]) <= 1

(* The event loop keeps running: the sleep of every expiry task ends. *)
SpecLive ==
    Spec /\ \A v \in Venues : \A k \in Keys(v) : WF_vars(_remove_alert_cooldown(v, k))

(* C39: an instrument that is in the cooldown set has an expiry task       *)
(* pending (the task is created in the step that inserts the instrument),  *)
(* and every instrument in the cooldown set is eventually removed from it. *)
C39_CooldownAlwaysExpires ==
    /\ [](\A v \in Venues : \A k \in alerted_symbols[v] : cooldown_tasks[v][k] >= 1)
    /\ \A v \in Venues : \A k \in Keys(v) :
          (k \in alerted_symbols[v]) ~> (k \notin alerted_symbols[v])

(* C39 witness: an instrument has left the cooldown set by expiry while    *)
(* another one of the same service is in it with its expiry task pending.  *)
C39_Witness ==
    \E v \in Venues : \E k \in alerted_symbols[v] :
        /\ cooldown_tasks[v][k] >= 1
        /\ expired[v] # {}

(* C37: no alert is lost to the cooldown.  When _send_alert comes back     *)
(* without having delivered the alert to any target (its preparation       *)
(* raised, or every delivery failed), the instrument does not enter the    *)
(* cooldown set.                                                           *)
C37_CooldownOnlyAfterDelivery ==
    [][\A v \in Venues : \A task \in BagToSet(tasks[v]) :
          (0 \in SentCounts[v] /\ SendDone(v, task, 0))
              => alerted_symbols'[v] = alerted_symbols[v]]_vars

(* C32: a cooldown entry lasts for the full cooldown counted from the most *)
(* recent alert of its instrument.  The expiry tasks of a service sleep    *)
(* for the same delay, so they wake in the order of their alerts: the      *)
(* entry must leave the set only through the expiry task of the latest     *)
(* alert, when no other expiry task of that instrument is still asleep.    *)
C32_CooldownLastsFromLatestAlert ==
    [][\A v \in Venues : \A k \in Keys(v) :
          (k \in alerted_symbols[v] /\ k \notin alerted_symbols'[v])
              => cooldown_tasks[v][k] = 1]_vars

(* C29: for every venue and instrument there is at most one pending        *)
(* _remove_alert_cooldown task, whatever the interleaving of the ticker    *)
(* coroutines.                                                             *)
C29_OneExpiryTaskPerInstrument ==
    \A v \in Venues : \A k \in Keys(v) : cooldown_tasks[v][k] <= 1

(* C2: once _remove_alert_cooldown has discarded an instrument, the next   *)
(* qualifying ticker for it on that venue triggers exactly one alert, and  *)
(* the return of _send_alert puts the instrument back into the cooldown    *)
(* set.                                                                    *)
C2_AlertAfterExpiry ==
    [][\A v \in Venues : \A task \in BagToSet(tasks[v]) :
          /\ \A n \in Tickers[v] :
                (/\ ProcessTicker(v, task, n)
                 /\ n.key # "" /\ n.ok /\ _should_alert(Num(n.last), Num(n.fair)) = "True"
                 /\ n.key \in expired[v])
                    => triggered'[v][n.key] = 1
          /\ \A c \in 0 .. NumChats :
                SendDone(v, task, c) => task.key \in alerted_symbols'[v]]_vars

(* C4: every alert handed to _send_alert is labelled SHORT exactly when    *)
(* last > fair and LONG exactly when last < fair, and none has last = fair.*)
C4_AlertDirection ==
    \A v \in Venues : \A task \in InFlightAlerts(v) :
        /\ task.alert_type \in {"SHORT", "LONG"}
        /\ task.alert_type = "SHORT" <=> task.last > task.fair
        /\ task.alert_type = "LONG" <=> task.last < task.fair
        /\ task.last # task.fair

(* C4 witness: a LONG alert (last below fair) is being sent. *)
C4_Witness ==
    \E v \in Venues : \E task \in InFlightAlerts(v) :
        task.alert_type = "LONG" /\ task.last < task.fair

(* C5: a ticker without id, with a non-numeric price or with a price <= 0  *)
(* triggers no alert and leaves the cooldown set as it was, and its        *)
(* coroutine goes on with the rest of the message: nothing but that ticker *)
(* is dropped, and the consumer stays available for later messages.  (Only *)
(* a step that leaves last_invalid set can have processed such a ticker.)  *)
C5_UnusableTickerDropped ==
    [][last_invalid' =>
          \A v \in running : \A task \in BagToSet(tasks[v]) :
              (\E n \in UnusableTickers[v] : ProcessTicker(v, task, n))
                  => /\ triggered' = triggered
                     /\ alerted_symbols' = alerted_symbols
                     /\ cooldown_tasks' = cooldown_tasks
                     /\ InFlightAlerts(v)' = InFlightAlerts(v)
                     /\ tasks'[v] = Advance(tasks[v], task)
                     /\ BagCardinality(tasks'[v]) <= MaxConsumers(v)]_vars

(* C5 witness: the MEXC consumer has dropped an unusable ticker and still  *)
(* holds the rest of its batch.                                            *)
C5_Witness ==
    /\ last_invalid
    /\ \E task \in BagToSet(tasks["MEXC"]) :
          task.pc = "batch" /\ task.remaining < MaxBatch

(***************************************************************************)
(* _should_alert on its own: one call with any two arguments, numbers in   *)
(* 0 .. MaxPrice, negative numbers, or values that are not numbers.        *)
(***************************************************************************)
(* The five tickers of simulate_gate_websocket_data as (last, mark_price); *)
(* the prices with decimals are written in hundredths (0.5 / 0.49 as       *)
(* 50 / 49), which leaves the spread percentage as it is.                  *)
SimulatedGateTickers ==
    {<<Num(50000), Num(49750)>>, <<Num(3000), Num(2945)>>, <<Num(50), Num(49)>>,
     <<Num(10000), Num(9950)>>, <<Num(1000), Num(985)>>}

InitShouldAlert ==
    /\ NotStarted /\ PipelineIdle
    /\ LET ShouldAlertArgs == {Num(x) : x \in (0 - 2) .. MaxPrice} \cup {NotANumber}
       IN  sa_in \in (ShouldAlertArgs \X ShouldAlertArgs) \cup SimulatedGateTickers
    /\ sa_out = "idle"
    /\ send_in = NoCall /\ send_out = NoCall
    /\ AggregatorIdle /\ ConnectorIdle /\ InfoIdle /\ ClientIdle

CallShouldAlert ==
    /\ sa_out = "idle"
    /\ sa_out' = _should_alert(sa_in[1], sa_in[2])
    /\ UNCHANGED <<sa_in, send_in, send_out, aggregator_vars, connector_vars, info_in, info_out, client_vars,
                   running, stale_threads, ws_is_connected, pipeline_vars, conn_vars>>

SpecShouldAlert == InitShouldAlert /\ [][CallShouldAlert]_vars

C23_GateOnePercentThreshold ==
    /\ sa_out # "idle" =>
          LET last == sa_in[1]
              fair == sa_in[2]
          IN  /\ (last.num /\ fair.num /\ last.val > 0 /\ fair.val > 0) =>
                     (sa_out = "True" <=> Abs(last.val - fair.val) * 100 >= 1 * fair.val)
              /\ sa_in = <<Num(3000), Num(2945)>> => sa_out = "True"
              /\ sa_in = <<Num(50000), Num(49750)>> => sa_out = "False"
              /\ Cardinality({t \in SimulatedGateTickers :
                                 _should_alert(t[1], t[2]) = "True"}) = 3

(***************************************************************************)
(* _send_alert on its own: one call for either venue, with any outcome of  *)
(* the three enrichment calls and any verdict of Telegram per chat.        *)
(***************************************************************************)
InitSend ==
    /\ NotStarted /\ PipelineIdle
    /\ sa_in = <<NotANumber, NotANumber>> /\ sa_out = "idle"
    /\ send_in \in [venue : Venues, enr : EnrichmentOutcomes, primary : DeliveryOutcomes,
                    fallback : DeliveryOutcomes, called : {TRUE}]
    /\ send_out = NoCall
    /\ AggregatorIdle /\ ConnectorIdle /\ InfoIdle /\ ClientIdle

CallSendAlert ==
    /\ ~send_out.called
    /\ send_out' = [venue |-> send_in.venue, called |-> TRUE,
                    result |-> _send_alert(send_in.venue, send_in.enr, send_in.primary,
                                           send_in.fallback)]
    /\ UNCHANGED <<sa_in, sa_out, send_in, aggregator_vars, connector_vars, info_in, info_out, client_vars,
                   running, stale_threads, ws_is_connected, pipeline_vars, conn_vars>>

SpecSend == InitSend /\ [][CallSendAlert]_vars

AttemptsTo(log, c, mode) == {i \in DOMAIN log : log[i].chat = c /\ log[i].mode = mode}

(* C6: whatever the outcome of the index, DEX and contract-detail calls,   *)
(* _send_alert is not aborted: each field whose call failed holds its own  *)
(* placeholder, each field whose call succeeded holds its data, and the    *)
(* message goes to every chat.                                             *)
C6_EnrichmentDegrades ==
    send_out.called =>
        LET r == send_out.result
            e == send_in.enr
            v == send_in.venue
        IN  /\ ~r.aborted
            /\ r.index_info = IF e.index = "ok" THEN "weights" ELSE v
            /\ r.dex_info = IF e.dex = "ok" THEN "links" ELSE "N/A"
            /\ v = "MEXC" =>
                  r.buying_limit_info = CASE e.limit = "ok"    -> "$limit"
                                          [] e.limit = "raise" -> "Error"
                                          [] OTHER             -> "API Required"
            /\ \A c \in AlertChats : AttemptsTo(r.log, c, "MarkdownV2") # {}

(* C6 witness: a MEXC alert whose three enrichment calls all failed has    *)
(* been sent to the chats.                                                 *)
C6_Witness ==
    /\ send_out.called
    /\ send_in.venue = "MEXC"
    /\ send_in.enr = [index |-> "raise", dex |-> "not_ok", limit |-> "raise"]
    /\ send_out.result.sent_count = NumChats

(* C7: every chat gets exactly one MarkdownV2 attempt whatever happened to *)
(* the other chats; a chat whose MarkdownV2 send was rejected gets exactly *)
(* one simplified attempt and no other chat gets one; no chat gets more    *)
(* than two attempts; sent_count is the number of chats whose MarkdownV2   *)
(* or simplified send succeeded.                                           *)
C7_DeliveryPerTarget ==
    send_out.called =>
        LET r == send_out.result
            log == r.log
            reached == {c \in AlertChats : \E i \in DOMAIN log : log[i].chat = c /\ log[i].ok}
        IN  /\ \A c \in AlertChats :
                  /\ Cardinality(AttemptsTo(log, c, "MarkdownV2")) = 1
                  /\ Cardinality(AttemptsTo(log, c, "simple")) =
                         IF send_in.primary[c] THEN 0 ELSE 1
                  /\ Cardinality({i \in DOMAIN log : log[i].chat = c}) <= 2
            /\ r.sent_count = Cardinality(reached)
            /\ reached = {c \in AlertChats :
                             send_in.primary[c] \/ (~send_in.primary[c] /\ send_in.fallback[c])}

(* C7 witness: the first chat rejected the MarkdownV2 message and took the *)
(* simplified one, a later chat rejected both.                             *)
C7_Witness ==
    /\ send_out.called
    /\ \E c, d \in AlertChats :
          /\ c < d
          /\ ~send_in.primary[c] /\ send_in.fallback[c]
          /\ ~send_in.primary[d] /\ ~send_in.fallback[d]
          /\ Cardinality(AttemptsTo(send_out.result.log, d, "simple")) = 1

(***************************************************************************)
(* The contract block of _build_aggregated_message on its own: one call    *)
(* with the contract entries of MEXC and of Gate.io, every address and     *)
(* every network name of the model.                                        *)
(***************************************************************************)
InitGroup ==
    /\ NotStarted /\ PipelineIdle
    /\ sa_in = <<NotANumber, NotANumber>> /\ sa_out = "idle"
    /\ send_in = NoCall /\ send_out = NoCall
    /\ grp_in \in [mexc : ContractLists, gate : ContractLists]
    /\ grp_out = NoResult
    /\ agg_pc = "idle"
    /\ agg_calls = [c \in UpstreamCalls |-> "pending"]
    /\ agg_out = NoResult
    /\ ConnectorIdle /\ InfoIdle /\ ClientIdle

CallGroup ==
    /\ ~grp_out.called
    /\ grp_out' = [called |-> TRUE,
                   result |-> contract_groups(grp_in.mexc, grp_in.gate)]
    /\ UNCHANGED <<sa_in, sa_out, send_in, send_out, grp_in, agg_pc, agg_calls, agg_out,
                   connector_vars, info_in, info_out, client_vars, running, stale_threads, ws_is_connected, pipeline_vars, conn_vars>>

SpecGroup == InitGroup /\ [][CallGroup]_vars

(* C16: when MEXC and Gate.io both contribute a contract entry, the two    *)
(* entries are in one group, listing MEXC and GATE once each, exactly when *)
(* their addresses are equal ignoring case and their normalized network    *)
(* names are equal; otherwise each entry has a group of its own that lists *)
(* its venue alone.  A venue that contributes alone has a group of its own.*)
C16_GroupedByAddressAndNetwork ==
    grp_out.called =>
        LET groups == grp_out.result.groups
            m == grp_in.mexc
            g == grp_in.gate
            same == /\ str_lower(m[1].address) = str_lower(g[1].address)
                    /\ _normalize_network_name(m[1].network) =
                           _normalize_network_name(g[1].network)
        IN  /\ ~grp_out.result.raised
            /\ Len(groups) = IF m # << >> /\ g # << >>
                             THEN (IF same THEN 1 ELSE 2)
                             ELSE Len(m) + Len(g)
            /\ (m # << >> /\ g # << >> /\ same) => groups[1].exchanges = <<"MEXC", "GATE">>
            /\ (m # << >> /\ g # << >> /\ ~same) =>
                  /\ groups[1].exchanges = <<"MEXC">> /\ groups[1].address = m[1].address
                  /\ groups[2].exchanges = <<"GATE">> /\ groups[2].address = g[1].address
            /\ (m # << >> /\ g = << >>) => groups[1].exchanges = <<"MEXC">>
            /\ (m = << >> /\ g # << >>) => groups[1].exchanges = <<"GATE">>

(* C16 witness: MEXC lists 0xAb on "BNB Smart Chain (BEP20)", Gate.io      *)
(* lists 0xab on "BSC", and the view has one group for both.               *)
C16_Witness ==
    /\ grp_out.called
    /\ grp_in.mexc = <<Contract(<<"0", "x", "A", "b">>, <<"B", "N", "B", " ", "S", "m", "a", "r", "t", " ", "C", "h", "a", "i", "n", " ", "(", "B", "E", "P", "2", "0", ")">>)>>
    /\ grp_in.gate = <<Contract(<<"0", "x", "a", "b">>, <<"B", "S", "C">>)>>
    /\ Len(grp_out.result.groups) = 1

(* C17: the network names "BNB Smart Chain (BEP20)", "BSC" and "bep20" are *)
(* normalized to one and the same identifier: two entries whose networks   *)
(* are among these three spellings carry the same network in the view.     *)
C17_BscAliasesNormalized ==
    LET BscAliases ==
            {<<"B", "N", "B", " ", "S", "m", "a", "r", "t", " ", "C", "h", "a", "i", "n", " ", "(", "B", "E", "P", "2", "0", ")">>,
             <<"B", "S", "C">>,
             <<"b", "e", "p", "2", "0">>}
    IN
    (/\ grp_out.called
     /\ grp_in.mexc # << >> /\ grp_in.gate # << >>
     /\ grp_in.mexc[1].network \in BscAliases
     /\ grp_in.gate[1].network \in BscAliases)
        => \A i, j \in DOMAIN grp_out.result.groups :
              grp_out.result.groups[i].network = grp_out.result.groups[j].network

(***************************************************************************)
(* One call of get_aggregated_info.  The three coroutine objects are       *)
(* created first and awaited one after the other; a coroutine starts to    *)
(* run when it is awaited.  Inside a coroutine the calls are started       *)
(* together by asyncio.gather.                                             *)
(***************************************************************************)
InitAggregate ==
    /\ NotStarted /\ PipelineIdle /\ PureIdle

Answered(calls) == \A c \in calls : agg_calls[c] \notin {"pending", "in_flight"}

AggUnchanged == UNCHANGED <<sa_in, sa_out, send_in, send_out, grp_in, grp_out,
                            connector_vars, info_in, info_out, client_vars, running, stale_threads, ws_is_connected, pipeline_vars, conn_vars>>

(* await mexc_task: _get_mexc_data runs up to its gather. *)
AwaitMexcData ==
    /\ agg_pc = "idle"
    /\ agg_pc' = "mexc"
    /\ agg_calls' = [c \in UpstreamCalls |-> IF c \in MexcCalls THEN "in_flight" ELSE agg_calls[c]]
    /\ UNCHANGED agg_out
    /\ AggUnchanged

(* An upstream call that is in flight answers. *)
UpstreamAnswers(c, o) ==
    /\ agg_calls[c] = "in_flight"
    /\ o \in CallOutcomes(c)
    /\ agg_calls' = [agg_calls EXCEPT ![c] = o]
    /\ UNCHANGED <<agg_pc, agg_out>>
    /\ AggUnchanged

(* _get_mexc_data returns; await gate_task: _get_gate_data runs up to its  *)
(* gather.                                                                 *)
AwaitGateData ==
    /\ agg_pc = "mexc"
    /\ Answered(MexcCalls)
    /\ agg_pc' = "gate"
    /\ agg_calls' = [c \in UpstreamCalls |-> IF c \in GateCalls THEN "in_flight" ELSE agg_calls[c]]
    /\ UNCHANGED agg_out
    /\ AggUnchanged

(* _get_gate_data returns; await spot_task: _get_spot_prices runs up to    *)
(* its gather.                                                             *)
AwaitSpotPrices ==
    /\ agg_pc = "gate"
    /\ Answered(GateCalls)
    /\ agg_pc' = "spot"
    /\ agg_calls' = [c \in UpstreamCalls |-> IF c \in SpotCalls THEN "in_flight" ELSE agg_calls[c]]
    /\ UNCHANGED agg_out
    /\ AggUnchanged

(* _get_spot_prices returns; the message is built and get_aggregated_info  *)
(* returns (message, errors), or the exception of                          *)
(* _build_aggregated_message leaves it.                                    *)
AggregateReturns ==
    /\ agg_pc = "spot"
    /\ Answered(SpotCalls)
    /\ agg_out' = get_aggregated_info(agg_calls)
    /\ agg_pc' = IF get_aggregated_info(agg_calls).raised THEN "raised" ELSE "returned"
    /\ UNCHANGED agg_calls
    /\ AggUnchanged

SpecAggregate ==
    /\ InitAggregate
    /\ [][\/ AwaitMexcData
          \/ \E c \in UpstreamCalls : \E o \in CallOutcomes(c) : UpstreamAnswers(c, o)
          \/ AwaitGateData
          \/ AwaitSpotPrices
          \/ AggregateReturns]_vars

(* An upstream call without the timeout of the HTTP session: it settles    *)
(* only when the venue answers.                                            *)
UpstreamSettles_without_timeout(c) ==
    /\ FALSE
    /\ UNCHANGED vars

(* The HTTP session is created with ClientTimeout(total=15): a request     *)
(* that is still in flight then ends in asyncio.TimeoutError, which        *)
(* get_json answers with (False, "Request timeout ...", None).             *)
UpstreamSettles(c) == UpstreamAnswers(c, "not_ok")

(* The event loop keeps running the coroutine, and the timeout of every    *)
(* request in flight fires; a venue answers with data or never.            *)
SpecAggregateLive ==
    /\ InitAggregate
    /\ [][AwaitMexcData \/ AwaitGateData \/ AwaitSpotPrices \/ AggregateReturns
            \/ \E c \in UpstreamCalls : UpstreamSettles(c) \/ UpstreamAnswers(c, "ok")]_vars
    /\ WF_vars(AwaitGateData \/ AwaitSpotPrices \/ AggregateReturns)
    /\ WF_vars(\E c \in UpstreamCalls : UpstreamSettles(c))

C13_AggregateNeverRaises ==
    agg_out.called =>
        LET m == agg_out.message IN
        /\ ~agg_out.raised
        /\ agg_pc = "returned"
        /\ agg_calls["fetch_futures_ticker"] = "ok" => m.mexc.futures_price
        /\ agg_calls["fetch_contract_detail"] = "ok" => m.mexc.futures_link
        /\ agg_calls["fetch_wallet_networks"] = "ok" => m.mexc.network
        /\ agg_calls["get_price_MEXC"] = "ok" => m.mexc.spot_price
        /\ agg_calls["fetch_futures_tickers"] = "ok" => m.gate.futures_price
        /\ agg_calls["fetch_futures_contracts"] = "ok" => m.gate.futures_link
        /\ agg_calls["fetch_currency_info"] = "ok" => m.gate.network
        /\ agg_calls["get_price_GATE"] = "ok" => m.gate.spot_price
        /\ (agg_calls["fetch_wallet_networks"] = "ok" \/ agg_calls["fetch_currency_info"] = "ok")
              => m.groups # << >>

(* C27: in the aggregated message every field of a venue has one upstream  *)
(* call as its source, and shows N/A whenever that call failed or answered *)
(* with nothing: spot price, futures price, network line, spot link and    *)
(* futures link of MEXC and of Gate.io.  A field never shows data on the   *)
(* strength of the other venue's calls.                                    *)
C27_FailedSourceRendersNA ==
    (agg_out.called /\ ~agg_out.raised) =>
        LET m == agg_out.message IN
        /\ agg_calls["get_price_MEXC"] # "ok" => ~m.mexc.spot_price /\ ~m.mexc.spot_link
        /\ agg_calls["fetch_futures_ticker"] # "ok" => ~m.mexc.futures_price
        /\ agg_calls["fetch_wallet_networks"] # "ok" => ~m.mexc.network
        /\ agg_calls["fetch_contract_detail"] # "ok" => ~m.mexc.futures_link
        /\ agg_calls["get_price_GATE"] # "ok" => ~m.gate.spot_price
        /\ agg_calls["fetch_futures_tickers"] # "ok" => ~m.gate.futures_price
        /\ agg_calls["fetch_currency_info"] # "ok" => ~m.gate.network
        /\ agg_calls["fetch_spot_tickers"] # "ok" => ~m.gate.spot_link
        /\ agg_calls["fetch_futures_contracts"] # "ok" => ~m.gate.futures_link

(* C27 witness: a message was returned in which the MEXC spot price and    *)
(* futures price failed and show N/A while the same fields of Gate.io,     *)
(* whose calls answered, show data.                                        *)
C27_Witness ==
    /\ agg_out.called /\ ~agg_out.raised
    /\ Failed(agg_calls["get_price_MEXC"]) /\ agg_calls["get_price_GATE"] = "ok"
    /\ Failed(agg_calls["fetch_futures_ticker"]) /\ agg_calls["fetch_futures_tickers"] = "ok"
    /\ ~agg_out.message.mexc.spot_price /\ agg_out.message.gate.spot_price
    /\ ~agg_out.message.mexc.futures_price /\ agg_out.message.gate.futures_price

(* C14: the errors list returned by get_aggregated_info has exactly one    *)
(* entry per upstream call that answered not-ok or raised, and none for    *)
(* the calls that answered ok.                                             *)
C14_OneErrorPerFailedCall ==
    (agg_out.called /\ ~agg_out.raised) =>
        Len(agg_out.errors) = Cardinality({c \in UpstreamCalls : Failed(agg_calls[c])})

(* C15: the upstream calls of the three groups (MEXC, Gate.io, spot        *)
(* prices) are in flight together: no call is still waiting to be started  *)
(* when all the calls of another group have already answered.              *)
C15_AllCallsConcurrent ==
    agg_pc # "idle" =>
        \A g \in {MexcCalls, GateCalls, SpotCalls} : \A c \in UpstreamCalls \ g :
            Answered(g) => agg_calls[c] # "pending"

(***************************************************************************)
(* One connector call: any method, with the HTTP session started or not,   *)
(* and any outcome of its HTTP exchanges.                                  *)
(***************************************************************************)
InitConnector ==
    /\ NotStarted /\ PipelineIdle
    /\ sa_in = <<NotANumber, NotANumber>> /\ sa_out = "idle"
    /\ send_in = NoCall /\ send_out = NoCall
    /\ AggregatorIdle /\ InfoIdle /\ ClientIdle
    /\ http_in \in [called : {TRUE}, call : ConnectorCalls]
    /\ http_out = NoResult

CallConnector ==
    /\ ~http_out.called
    /\ http_out' = [called |-> TRUE, result |-> connector_call(http_in.call)]
    /\ UNCHANGED <<sa_in, sa_out, send_in, send_out, aggregator_vars, http_in, info_in, info_out, client_vars,
                   running, stale_threads, ws_is_connected, pipeline_vars, conn_vars>>

SpecConnector == InitConnector /\ [][CallConnector]_vars

(* C18: every connector call, HttpClient.get_json and the fetch_* methods  *)
(* of MexcClient and GateClient, answers a triple (ok, err, data) and does *)
(* not raise, whatever the HTTP outcome and whether or not the session was *)
(* started.                                                                *)
C18_ConnectorNeverRaises ==
    http_out.called => ~http_out.result.raised

(***************************************************************************)
(* One single-venue info request: get_gate_info or get_cex_info with any   *)
(* answers of its upstream calls.                                          *)
(***************************************************************************)
InitInfo ==
    /\ NotStarted /\ PipelineIdle
    /\ sa_in = <<NotANumber, NotANumber>> /\ sa_out = "idle"
    /\ send_in = NoCall /\ send_out = NoCall
    /\ AggregatorIdle /\ ConnectorIdle /\ ClientIdle
    /\ info_in \in [called : {TRUE}, call : InfoCalls]
    /\ info_out = NoResult

CallInfo ==
    /\ ~info_out.called
    /\ info_out' = [called |-> TRUE,
                    result |-> IF info_in.call.service = "gate"
                               THEN get_gate_info(info_in.call)
                               ELSE get_cex_info(info_in.call)]
    /\ UNCHANGED <<sa_in, sa_out, send_in, send_out, aggregator_vars, connector_vars, info_in,
                   client_vars, running, stale_threads, ws_is_connected, pipeline_vars, conn_vars>>

SpecInfo == InitInfo /\ [][CallInfo]_vars

(* C24: when no upstream call raises, get_gate_info returns a message      *)
(* whatever the index-constituents call answered; for a contract that was  *)
(* found the index line lists exactly the constituents whose weight is a   *)
(* number > 0, in their order, and is "100% Gate.io" when there is none    *)
(* (call failed, no list, empty list, no positive weight); and the errors  *)
(* list has no entry for the index.                                        *)
C24_IndexLineDegrades ==
    (/\ info_out.called
     /\ info_in.call.service = "gate"
     /\ "raise" \notin {info_in.call.contracts, info_in.call.tickers, info_in.call.currency,
                        info_in.call.index.status}) =>
        LET o == info_in.call
            r == info_out.result
            c == o.index.constituents
            positive == IF o.index.status # "ok" \/ c = None THEN {}
                        ELSE {i \in DOMAIN c : c[i] = "pos"}
        IN  /\ ~r.raised
            /\ \A i \in DOMAIN r.errors :
                  r.errors[i] \in {"contracts", "futures tickers", "currency"}
            /\ o.contracts = "ok" =>
                  /\ r.index.fallback <=> positive = {}
                  /\ {r.index.listed[i] : i \in DOMAIN r.index.listed} = positive
                  /\ Len(r.index.listed) = Cardinality(positive)
                  /\ \A i, j \in DOMAIN r.index.listed :
                        i < j => r.index.listed[i] < r.index.listed[j]

(* C24 witness: the first weight is text, the second a positive number:    *)
(* the index line lists the second constituent alone.                      *)
C24_Witness ==
    /\ info_out.called
    /\ info_in.call.service = "gate"
    /\ info_in.call.contracts = "ok"
    /\ info_in.call.index = [status |-> "ok", constituents |-> <<"invalid", "pos">>]
    /\ ~info_out.result.raised
    /\ info_out.result.index = [fallback |-> FALSE, listed |-> <<2>>]

(* C25: get_cex_info and get_gate_info return (text, errors) whatever      *)
(* their upstream calls answer, a call that raises included, and the       *)
(* errors list has one entry for every upstream call that was made and     *)
(* failed.                                                                 *)
C25_InfoNeverRaises ==
    info_out.called =>
        LET o == info_in.call
            r == info_out.result
            Bad(x) == x \in {"not_ok", "raise"}
            failed == IF o.service = "gate"
                      THEN {n \in {"contracts", "tickers"} : Bad(o[n])}
                           \cup (IF o.contracts = "ok" /\ Bad(o.currency)
                                 THEN {"currency"} ELSE {})
                           \cup (IF o.contracts = "ok" /\ Bad(o.index.status)
                                 THEN {"index"} ELSE {})
                      ELSE {n \in {"contract_detail", "index_weights", "futures_ticker"} :
                               Bad(o[n])}
                           \cup (IF o.contract_detail = "ok" /\ Bad(o.networks)
                                 THEN {"networks"} ELSE {})
        IN  /\ ~r.raised
            /\ Len(r.errors) = Cardinality(failed)

(***************************************************************************)
(* Websocket supervision.  The peer closes the transport normally (close   *)
(* code 1000/1001: recv raises ConnectionClosedOK) or abnormally (recv     *)
(* raises ConnectionClosedError).                                          *)
(***************************************************************************)
CloseKinds == {"closed_ok", "closed_error"}

(* MEXC: the peer closes the transport; no code of the client runs yet. *)
MexcPeerClose(how) ==
    /\ "MEXC" \in running
    /\ transport = "open"
    /\ transport' = how
    /\ UNCHANGED <<is_running, is_connected, subscribed, recv_pc, ping_pc, reconnect_task,
                   backoff, mon_pc, consecutive_failures, failed_run, last_sleep>>
    /\ UNCHANGED <<running, stale_threads, ws_is_connected, pipeline_vars, pure_vars, stop_pc>>

(* Gate.io: the peer closes the transport; run_forever calls _on_error (on *)
(* an abnormal close) and _on_close on its thread.                         *)
GateOnClose(how) ==
    /\ "GATE.IO" \in running
    /\ transport = "open"
    /\ transport' = how
    /\ is_connected' = FALSE
    /\ UNCHANGED <<is_running, subscribed, recv_pc, ping_pc, reconnect_task, backoff, mon_pc,
                   consecutive_failures, failed_run, last_sleep>>
    /\ UNCHANGED <<running, stale_threads, ws_is_connected, pipeline_vars, pure_vars, stop_pc>>

(* _message_handler at the head of its loop: the while condition and the   *)
(* ws.state check that breaks out of the loop.                             *)
MexcHandlerTop ==
    /\ recv_pc = "top"
    /\ recv_pc' = IF is_connected /\ transport = "open" THEN "recv" ELSE "ended"
    /\ UNCHANGED <<is_running, is_connected, transport, subscribed, ping_pc, reconnect_task,
                   backoff, mon_pc, consecutive_failures, failed_run, last_sleep>>
    /\ UNCHANGED <<running, stale_threads, ws_is_connected, pipeline_vars, pure_vars, stop_pc>>

(* _message_handler in ws.recv(): a message is handled and the loop        *)
(* continues; ConnectionClosedError clears is_connected and breaks; any    *)
(* other exception (ConnectionClosedOK) continues.                         *)
MexcRecv ==
    /\ recv_pc = "recv"
    /\ IF transport = "closed_error"
       THEN is_connected' = FALSE /\ recv_pc' = "ended"
       ELSE is_connected' = is_connected /\ recv_pc' = "top"
    /\ UNCHANGED <<is_running, transport, subscribed, ping_pc, reconnect_task, backoff,
                   mon_pc, consecutive_failures, failed_run, last_sleep>>
    /\ UNCHANGED <<running, stale_threads, ws_is_connected, pipeline_vars, pure_vars, stop_pc>>

(* _ping_loop: ws.send raises because the connection is lost while the     *)
(* ping is sent: the except branch breaks.                                 *)
MexcPingFails(how) ==
    /\ ping_pc = "running"
    /\ is_connected /\ transport = "open"
    /\ transport' = how
    /\ ping_pc' = "ended"
    /\ UNCHANGED <<is_running, is_connected, subscribed, recv_pc, reconnect_task, backoff,
                   mon_pc, consecutive_failures, failed_run, last_sleep>>
    /\ UNCHANGED <<running, stale_threads, ws_is_connected, pipeline_vars, pure_vars, stop_pc>>

(* _ping_loop: the while condition is false, or ws.state is not OPEN. *)
MexcPingEnds ==
    /\ ping_pc = "running"
    /\ ~is_connected \/ transport # "open"
    /\ ping_pc' = "ended"
    /\ UNCHANGED <<is_running, is_connected, transport, subscribed, recv_pc, reconnect_task,
                   backoff, mon_pc, consecutive_failures, failed_run, last_sleep>>
    /\ UNCHANGED <<running, stale_threads, ws_is_connected, pipeline_vars, pure_vars, stop_pc>>

(* One round of _reconnect_loop, the task MexcWebSocketClient.reconnect    *)
(* leaves behind: the loop ends when is_connected is set; otherwise it     *)
(* sleeps backoff seconds and calls connect().  A successful connect()     *)
(* sets is_connected, starts a ping loop and a message handler; the result *)
(* of subscribe_tickers is dropped and the loop breaks.                    *)
MexcReconnectLoop(connected, sub_ok) ==
    /\ reconnect_task = "running"
    /\ IF is_connected
       THEN /\ reconnect_task' = "done"
            /\ UNCHANGED <<is_connected, transport, subscribed, recv_pc, ping_pc, backoff,
                           failed_run>>
       ELSE IF connected
            THEN /\ transport' = "open"
                 /\ is_connected' = TRUE
                 /\ ping_pc' = "running"
                 /\ recv_pc' = "top"
                 /\ subscribed' = sub_ok
                 /\ reconnect_task' = "done"
                 /\ failed_run' = 0
                 /\ UNCHANGED backoff
            ELSE /\ backoff < max_backoff
                 /\ backoff' = IF backoff * 2 < max_backoff THEN backoff * 2 ELSE max_backoff
                 /\ is_connected' = FALSE
                 /\ UNCHANGED <<transport, subscribed, recv_pc, ping_pc, reconnect_task,
                                failed_run>>
    /\ UNCHANGED <<is_running, mon_pc, consecutive_failures, last_sleep>>
    /\ UNCHANGED <<running, stale_threads, ws_is_connected, pipeline_vars, pure_vars, stop_pc>>

(* run_monitoring_loop: the health check at the head of the loop. *)
MonitorCheck ==
    /\ mon_pc = "check"
    /\ is_running
    /\ IF is_connected
       THEN mon_pc' = "sleep_10" /\ UNCHANGED consecutive_failures
       ELSE /\ consecutive_failures' = consecutive_failures + 1
            /\ mon_pc' = IF consecutive_failures + 1 >= max_consecutive_failures
                         THEN "sleep_60" ELSE "reconnect"
    /\ UNCHANGED <<is_running, is_connected, transport, subscribed, recv_pc, ping_pc,
                   reconnect_task, backoff, failed_run, last_sleep>>
    /\ UNCHANGED <<running, stale_threads, ws_is_connected, pipeline_vars, pure_vars, stop_pc>>

(* run_monitoring_loop wakes up from one of its sleeps; after the 60 s     *)
(* sleep it clears consecutive_failures.                                   *)
MonitorWake(seconds) ==
    /\ mon_pc = CASE seconds = 10 -> "sleep_10"
                  [] seconds = 30 -> "sleep_30"
                  [] seconds = 60 -> "sleep_60"
    /\ mon_pc' = "check"
    /\ last_sleep' = seconds
    /\ consecutive_failures' = IF seconds = 60 THEN 0 ELSE consecutive_failures
    /\ UNCHANGED <<is_running, is_connected, transport, subscribed, recv_pc, ping_pc,
                   reconnect_task, backoff, failed_run>>
    /\ UNCHANGED <<running, stale_threads, ws_is_connected, pipeline_vars, pure_vars, stop_pc>>

(* reconnect() without the check of a reconnect task in flight. *)
MexcReconnect_always_starts ==
    /\ mon_pc = "reconnect"
    /\ "MEXC" \in running
    /\ failed_run < MaxFailedRun
    /\ reconnect_task' = "running" /\ backoff' = 1
    /\ failed_run' = failed_run + 1
    /\ mon_pc' = "sleep_30"
    /\ UNCHANGED <<is_running, is_connected, transport, subscribed, recv_pc, ping_pc,
                   consecutive_failures, last_sleep>>
    /\ UNCHANGED <<running, stale_threads, ws_is_connected, pipeline_vars, pure_vars, stop_pc>>

(* MEXC: reconnect_websocket() returns what MexcWebSocketClient.reconnect  *)
(* returns, which is None: the loop takes the attempt as failed.  The      *)
(* reconnect task is created unless one is still running.                  *)
MexcReconnect ==
    /\ mon_pc = "reconnect"
    /\ "MEXC" \in running
    /\ failed_run < MaxFailedRun
    /\ IF reconnect_task = "running"
       THEN UNCHANGED <<reconnect_task, backoff>>
       ELSE reconnect_task' = "running" /\ backoff' = 1
    /\ failed_run' = failed_run + 1
    /\ mon_pc' = "sleep_30"
    /\ UNCHANGED <<is_running, is_connected, transport, subscribed, recv_pc, ping_pc,
                   consecutive_failures, last_sleep>>
    /\ UNCHANGED <<running, stale_threads, ws_is_connected, pipeline_vars, pure_vars, stop_pc>>

(* Gate.io reconnect(): disconnect() clears is_connected and closes ws. *)
GateReconnectStart ==
    /\ mon_pc = "reconnect"
    /\ "GATE.IO" \in running
    /\ is_connected' = FALSE
    /\ transport' = "none"
    /\ mon_pc' = "connecting"
    /\ IF transport \in CloseKinds
       THEN UNCHANGED stale_threads
       ELSE stale_threads < MaxStaleThreads /\ stale_threads' = stale_threads + 1
    /\ UNCHANGED <<is_running, subscribed, recv_pc, ping_pc, reconnect_task, backoff,
                   consecutive_failures, failed_run, last_sleep>>
    /\ UNCHANGED <<running, ws_is_connected, pipeline_vars, pure_vars, stop_pc>>

(* Gate.io: connect() gave up after its 10 s, but nothing stopped the      *)
(* thread it started: the transport opens afterwards and _on_open sets     *)
(* is_connected.  Nothing subscribes on it.                                *)
GateLateOpen ==
    /\ "GATE.IO" \in running
    /\ transport = "none"
    /\ mon_pc # "connecting"
    /\ transport' = "open"
    /\ is_connected' = TRUE
    /\ subscribed' = FALSE
    /\ UNCHANGED <<is_running, recv_pc, ping_pc, reconnect_task, backoff, mon_pc,
                   consecutive_failures, failed_run, last_sleep>>
    /\ UNCHANGED <<running, stale_threads, ws_is_connected, pipeline_vars, pure_vars, stop_pc>>

(* Gate.io: run_forever of a transport that disconnect() closed returns on *)
(* its thread, which calls _on_close and ends.                             *)
GateStaleClose ==
    /\ stale_threads > 0
    /\ stale_threads' = stale_threads - 1
    /\ is_connected' = FALSE
    /\ UNCHANGED <<is_running, transport, subscribed, recv_pc, ping_pc, reconnect_task, backoff,
                   mon_pc, consecutive_failures, failed_run, last_sleep>>
    /\ UNCHANGED <<running, ws_is_connected, pipeline_vars, pure_vars, stop_pc>>

(* Gate.io reconnect(): connect() returns True once _on_open has set       *)
(* is_connected, False after its 10 s timeout.                             *)
GateConnect(connected) ==
    /\ mon_pc = "connecting"
    /\ IF connected
       THEN /\ transport' = "open"
            /\ is_connected' = TRUE
            /\ subscribed' = FALSE
            /\ mon_pc' = "resubscribe"
            /\ UNCHANGED failed_run
       ELSE /\ failed_run < MaxFailedRun
            /\ failed_run' = failed_run + 1
            /\ mon_pc' = "sleep_30"
            /\ UNCHANGED <<transport, is_connected, subscribed>>
    /\ UNCHANGED <<is_running, recv_pc, ping_pc, reconnect_task, backoff,
                   consecutive_failures, last_sleep>>
    /\ UNCHANGED <<running, stale_threads, ws_is_connected, pipeline_vars, pure_vars, stop_pc>>

(* Gate.io reconnect(): subscribe_tickers answers False when the client is *)
(* not connected or ws.send raises; reconnect() drops the answer and       *)
(* returns True.                                                           *)
GateResubscribe(sent) ==
    /\ mon_pc = "resubscribe"
    /\ subscribed' = (is_connected /\ transport = "open" /\ sent)
    /\ failed_run' = 0
    /\ mon_pc' = "reconnected"
    /\ UNCHANGED <<is_running, is_connected, transport, recv_pc, ping_pc, reconnect_task,
                   backoff, consecutive_failures, last_sleep>>
    /\ UNCHANGED <<running, stale_threads, ws_is_connected, pipeline_vars, pure_vars, stop_pc>>

(* run_monitoring_loop after reconnect_websocket() returned a true value:  *)
(* consecutive_failures = 0, then the 10 s sleep.                          *)
MonitorReconnected ==
    /\ mon_pc = "reconnected"
    /\ consecutive_failures' = 0
    /\ mon_pc' = "sleep_10"
    /\ UNCHANGED <<is_running, is_connected, transport, subscribed, recv_pc, ping_pc,
                   reconnect_task, backoff, failed_run, last_sleep>>
    /\ UNCHANGED <<running, stale_threads, ws_is_connected, pipeline_vars, pure_vars, stop_pc>>

NextConn ==
    \/ \E how \in CloseKinds : MexcPeerClose(how)
    \/ \E how \in CloseKinds : GateOnClose(how)
    \/ MexcHandlerTop
    \/ MexcRecv
    \/ \E how \in CloseKinds : MexcPingFails(how)
    \/ MexcPingEnds
    \/ \E connected, sub_ok \in BOOLEAN : MexcReconnectLoop(connected, sub_ok)
    \/ MonitorCheck
    \/ \E seconds \in {10, 30, 60} : MonitorWake(seconds)
    \/ MexcReconnect
    \/ GateReconnectStart
    \/ GateLateOpen
    \/ GateStaleClose
    \/ \E connected \in BOOLEAN : GateConnect(connected)
    \/ \E sent \in BOOLEAN : GateResubscribe(sent)
    \/ MonitorReconnected

SpecConn == Init /\ [][NextConn]_vars

(* C8: when the monitoring loop is about to call reconnect_websocket()     *)
(* after 5 reconnect attempts have failed in a row, the sleep it has just  *)
(* finished is the 60 s cool-off; and once a reconnect has succeeded and   *)
(* the loop is back in its 10 s sleep, consecutive_failures is 0 (MEXC and *)
(* Gate.io).                                                               *)
C8_CoolOffAndReset ==
    /\ (mon_pc = "reconnect" /\ failed_run >= 5) => last_sleep = 60
    /\ (mon_pc = "sleep_10" /\ failed_run = 0) => consecutive_failures = 0

(* C9: reconnect() has reported success to the monitoring loop only if the *)
(* ticker subscription was issued successfully on the new transport.       *)
C9_SuccessMeansResubscribed ==
    mon_pc = "reconnected" => subscribed

(* C10: once the transport is closed, normally or abnormally or on a       *)
(* failed ping, and the loops of the client have ended (MEXC) or its       *)
(* callbacks have run (Gate.io), is_connected is false.                    *)
C10_ClosedMeansDisconnected ==
    (transport \in CloseKinds /\ recv_pc = "ended" /\ ping_pc = "ended") => ~is_connected

(* C33: when the monitoring loop of a started service finds the client     *)
(* connected at its health check, the transport is open and the ticker     *)
(* subscription was issued on that transport.                              *)
C33_ConnectedMeansSubscribed ==
    [][(MonitorCheck /\ is_connected) => (transport = "open" /\ subscribed)]_vars

(* C35: the MEXC client has at most one ping loop and at most one receive  *)
(* loop.  The loops are started by connect() only, so whenever a connect() *)
(* of the reconnect loop succeeds and starts a new pair, the ping loop and *)
(* the receive loop of the earlier connection have ended.                  *)
C35_OneLoopEach ==
    [][((\E sub_ok \in BOOLEAN : MexcReconnectLoop(TRUE, sub_ok)) /\ ~is_connected)
          => (ping_pc = "ended" /\ recv_pc = "ended")]_vars

(* C36: the MEXC client has at most one reconnect loop in flight, and a    *)
(* reconnect() called while one is in flight starts nothing and changes no *)
(* state of the client.                                                    *)
C36_OneReconnectLoop ==
    [][(MexcReconnect /\ reconnect_task = "running")
          => UNCHANGED <<reconnect_task, backoff, is_connected, transport, subscribed,
                         recv_pc, ping_pc>>]_vars

(* C36 witness: the monitoring loop has called reconnect() twice in a row  *)
(* while the connection is down and the backoff of the reconnect loop in   *)
(* flight has grown.                                                       *)
C36_Witness ==
    /\ "MEXC" \in running
    /\ reconnect_task = "running" /\ ~is_connected
    /\ failed_run >= 2 /\ backoff > 1

(* C34: the Gate.io client has at most one transport thread alive, and the *)
(* close callback of a transport that reconnect() has replaced leaves the  *)
(* connection flag of the new, open transport as it is.                    *)
C34_OneGateThread ==
    /\ []("GATE.IO" \in running =>
             stale_threads + (IF transport = "open" THEN 1 ELSE 0) <= 1)
    /\ [][(GateStaleClose /\ transport = "open") => is_connected' = is_connected]_vars

(* The scheduling of the supervision: the event loop runs every coroutine  *)
(* that is ready (weak fairness of the client loops and of the monitoring  *)
(* loop, whose sleeps end), and connection attempts to the venue do not    *)
(* fail forever (strong fairness of the successful connect).  Nothing      *)
(* obliges the peer to close the transport.                                *)
SpecConnLive ==
    /\ SpecConn
    /\ WF_vars(MexcHandlerTop) /\ WF_vars(MexcRecv) /\ WF_vars(MexcPingEnds)
    /\ WF_vars(MonitorCheck) /\ WF_vars(\E seconds \in {10, 30, 60} : MonitorWake(seconds))
    /\ WF_vars(MexcReconnect) /\ WF_vars(GateReconnectStart) /\ WF_vars(MonitorReconnected)
    /\ WF_vars(\E connected, sub_ok \in BOOLEAN : MexcReconnectLoop(connected, sub_ok))
    /\ WF_vars(\E connected \in BOOLEAN : GateConnect(connected))
    /\ WF_vars(\E sent \in BOOLEAN : GateResubscribe(sent))
    /\ SF_vars(\E sub_ok \in BOOLEAN : MexcReconnectLoop(TRUE, sub_ok))
    /\ SF_vars(GateConnect(TRUE))

(* C22: whenever the transport of a running service is closed, the         *)
(* service is later connected again on an open transport with the ticker   *)
(* subscription issued on it, provided connection attempts do not fail     *)
(* forever.                                                                *)
C22_EventuallyReconnected ==
    (is_running /\ transport \in CloseKinds)
        ~> (is_connected /\ transport = "open" /\ subscribed)

(* C26: on every venue successive failed connection attempts are          *)
(* separated by a delay that doubles up to a fixed maximum.  MEXC: the     *)
(* delay of _reconnect_loop starts at 1 s and a failed connect() takes it  *)
(* from d to min(2 d, 60).  Gate.io: a connect() that fails after an       *)
(* attempt that was preceded by the 30 s sleep is not followed by the same *)
(* 30 s sleep again.                                                       *)
C26_ExponentialBackoff ==
    /\ [][(MexcReconnect /\ reconnect_task # "running") => backoff' = 1]_vars
    /\ [][(\E sub_ok \in BOOLEAN : MexcReconnectLoop(FALSE, sub_ok)) =>
             (backoff' = backoff \/ backoff' = 2 * backoff \/ backoff' = max_backoff)]_vars
    /\ [][(GateConnect(FALSE) /\ failed_run >= 1 /\ last_sleep = 30)
             => mon_pc' # "sleep_30"]_vars

(***************************************************************************)
(* The websocket client between connect and close: subscribe_tickers may   *)
(* be called at any moment, messages of any kind arrive while the          *)
(* transport is open, and the peer may close the transport.                *)
(***************************************************************************)
InitClient ==
    /\ Connected /\ PipelineIdle
    /\ sa_in = <<NotANumber, NotANumber>> /\ sa_out = "idle"
    /\ send_in = NoCall /\ send_out = NoCall
    /\ AggregatorIdle /\ ConnectorIdle /\ InfoIdle
    /\ handler_registered = FALSE
    /\ sub_result = [value |-> "none", connected |-> FALSE, sent |-> FALSE]
    /\ last_msg = "none" /\ prev_msg = "none"
    /\ last_delivered = FALSE

ClientUnchanged == UNCHANGED <<sa_in, sa_out, send_in, send_out, aggregator_vars,
                               connector_vars, info_in, info_out, running, stale_threads, ws_is_connected, pipeline_vars>>

(* subscribe_tickers(callback) is called on the client. *)
SubscribeTickers(send_ok) ==
    /\ running # {}
    /\ LET r == subscribe_tickers(is_connected, transport, send_ok, handler_registered)
       IN  /\ handler_registered' = r.registered
           /\ subscribed' = (subscribed \/ r.sent)
           /\ sub_result' = [value |-> r.value,
                             connected |-> is_connected /\ transport = "open",
                             sent |-> r.sent]
    /\ UNCHANGED <<last_msg, prev_msg, last_delivered>>
    /\ UNCHANGED <<is_running, is_connected, transport, recv_pc, ping_pc, reconnect_task,
                   backoff, mon_pc, consecutive_failures, failed_run, last_sleep, stop_pc>>
    /\ ClientUnchanged

(* MEXC: ws.recv() returns a message and _message_handler handles it. *)
MexcInbound(kind) ==
    /\ "MEXC" \in running
    /\ recv_pc = "recv"
    /\ transport = "open"
    /\ LET r == mexc_message(kind, handler_registered)
       IN  /\ recv_pc' = IF r.continues THEN "top" ELSE "ended"
           /\ is_connected' = IF r.clears_connected THEN FALSE ELSE is_connected
           /\ last_delivered' = r.delivered
    /\ prev_msg' = last_msg
    /\ last_msg' = kind
    /\ UNCHANGED <<handler_registered, sub_result>>
    /\ UNCHANGED <<is_running, transport, subscribed, ping_pc, reconnect_task, backoff, mon_pc,
                   consecutive_failures, failed_run, last_sleep, stop_pc>>
    /\ ClientUnchanged

(* Gate.io: run_forever calls _on_message with a message. *)
GateInbound(kind) ==
    /\ "GATE.IO" \in running
    /\ transport = "open"
    /\ LET r == gate_message(kind, handler_registered)
       IN  /\ is_connected' = IF r.clears_connected THEN FALSE ELSE is_connected
           /\ transport' = IF r.continues THEN transport ELSE "closed_error"
           /\ last_delivered' = r.delivered
    /\ prev_msg' = last_msg
    /\ last_msg' = kind
    /\ UNCHANGED <<handler_registered, sub_result>>
    /\ UNCHANGED <<is_running, subscribed, recv_pc, ping_pc, reconnect_task, backoff, mon_pc,
                   consecutive_failures, failed_run, last_sleep, stop_pc>>
    /\ ClientUnchanged

(* MEXC: ws.recv() raises because the transport is closed. *)
MexcRecvClosed == transport # "open" /\ MexcRecv

SpecClient ==
    /\ InitClient
    /\ [][\/ \E send_ok \in BOOLEAN : SubscribeTickers(send_ok)
          \/ \E kind \in MsgKinds : MexcInbound(kind)
          \/ \E kind \in MsgKinds : GateInbound(kind)
          \/ MexcHandlerTop
          \/ MexcRecvClosed
          \/ \E how \in CloseKinds : MexcPeerClose(how)
          \/ \E how \in CloseKinds : GateOnClose(how)]_vars

(* C28: the callbacks that websocket-client runs on the thread of the      *)
(* Gate.io transport (_on_message, _on_error, _on_close) leave the state   *)
(* shared with the event loop as it is: the connection flag changes only   *)
(* in steps of the event loop, after the event was handed over to it.      *)
C28_GateThreadTouchesNoSharedState ==
    [][((\E how \in CloseKinds : GateOnClose(how)) \/ (\E kind \in MsgKinds : GateInbound(kind)))
          => UNCHANGED <<is_connected, handler_registered, alerted_symbols>>]_vars

(* C19: subscribe_tickers called while the client is not connected (the    *)
(* flag is down or the transport is not open) returns False, puts no       *)
(* subscription request on the wire and leaves the handler map as it was,  *)
(* on MEXC and on Gate.io.                                                 *)
C19_SubscribeNeedsConnection ==
    [][\A send_ok \in BOOLEAN :
          (SubscribeTickers(send_ok) /\ ~(is_connected /\ transport = "open"))
              => /\ sub_result'.value = "False"
                 /\ ~sub_result'.sent
                 /\ handler_registered' = handler_registered
                 /\ subscribed' = subscribed]_vars

(* C19 witness: subscribe_tickers was called on a client that was not      *)
(* connected and had no handler; it returned False and there is still no   *)
(* handler.                                                                *)
C19_Witness ==
    /\ sub_result.value = "False"
    /\ ~sub_result.connected
    /\ ~handler_registered

(* C20: a malformed message, or a ticker message whose handler raises,     *)
(* leaves is_connected, the transport and the handler map as they were and *)
(* the receive loop running; and a well-formed ticker message that comes   *)
(* right after it is handed to the registered handler.                     *)
C20_MalformedMessageSkipped ==
    /\ [][\A kind \in Malformed :
             (MexcInbound(kind) \/ GateInbound(kind))
                 => /\ is_connected' = is_connected
                    /\ transport' = transport
                    /\ handler_registered' = handler_registered
                    /\ "MEXC" \in running => recv_pc' = "top"]_vars
    /\ [][((MexcInbound("ticker") \/ GateInbound("ticker"))
               /\ last_msg \in Malformed /\ handler_registered)
                 => last_delivered']_vars

(* C20 witness: the MEXC client got text that is no JSON, is still         *)
(* connected, and the ticker message after it reached the handler.         *)
C20_Witness ==
    /\ running = {"MEXC"}
    /\ prev_msg = "invalid_json"
    /\ last_msg = "ticker"
    /\ last_delivered
    /\ is_connected

(***************************************************************************)
(* stop() of a running service.  stop() suspends at the await of the       *)
(* cancelled monitoring task, inside disconnect_websocket() and at the     *)
(* close of the bot session; the coroutines of the service run in between. *)
(***************************************************************************)

(* stop(): is_running = False, monitoring_task.cancel(), await of the      *)
(* task: run_monitoring_loop catches CancelledError and leaves its loop.   *)
StopCancelMonitoring ==
    /\ stop_pc = "idle"
    /\ is_running
    /\ is_running' = FALSE
    /\ mon_pc' = "stopped"
    /\ stop_pc' = "disconnect"
    /\ UNCHANGED <<is_connected, transport, subscribed, recv_pc, ping_pc, reconnect_task,
                   backoff, consecutive_failures, failed_run, last_sleep>>
    /\ UNCHANGED <<running, stale_threads, ws_is_connected, pipeline_vars, pure_vars>>

(* stop(): disconnect_websocket().  MexcWebSocketClient.disconnect clears  *)
(* is_connected, cancels and awaits ping_task and reconnect_task and       *)
(* closes ws; the task of _message_handler, of which connect() keeps no    *)
(* reference, is left alone.  GateWebSocketClient.disconnect clears        *)
(* is_connected and closes ws.  Neither touches the ticker coroutines or   *)
(* the _remove_alert_cooldown tasks.                                       *)
StopDisconnect ==
    /\ stop_pc = "disconnect"
    /\ is_connected' = FALSE
    /\ transport' = IF transport = "open" THEN "closed_ok" ELSE transport
    /\ ping_pc' = "ended"
    /\ reconnect_task' = IF reconnect_task = "running" THEN "done" ELSE reconnect_task
    /\ stop_pc' = "close_bot"
    /\ UNCHANGED <<is_running, subscribed, recv_pc, backoff, mon_pc, consecutive_failures,
                   failed_run, last_sleep>>
    /\ UNCHANGED <<running, stale_threads, ws_is_connected, pipeline_vars, pure_vars>>

(* stop(): bot.session.close() is awaited and stop() returns. *)
StopReturn ==
    /\ stop_pc = "close_bot"
    /\ stop_pc' = "returned"
    /\ UNCHANGED <<is_running, is_connected, transport, subscribed, recv_pc, ping_pc,
                   reconnect_task, backoff, mon_pc, consecutive_failures, failed_run,
                   last_sleep>>
    /\ UNCHANGED <<running, stale_threads, ws_is_connected, pipeline_vars, pure_vars>>

SpecStop ==
    Init /\ [][Next \/ MexcHandlerTop \/ MexcRecv \/ StopCancelMonitoring \/ StopDisconnect
                  \/ StopReturn]_vars

(* C12: once stop() has returned, the monitoring loop, the keepalive loop, *)
(* the reconnect task and the message-receive task have finished, no       *)
(* ticker coroutine of the service is still running and no                 *)
(* _remove_alert_cooldown task is pending.                                 *)
C12_StoppedMeansQuiet ==
    stop_pc = "returned" =>
        /\ mon_pc = "stopped"
        /\ ping_pc = "ended"
        /\ reconnect_task # "running"
        /\ recv_pc = "ended"
        /\ \A v \in running :
              /\ tasks[v] = EmptyBag
              /\ PendingTimers(v) = 0

(***************************************************************************)
(* The monitoring loop under exceptions and stop().  What the abstract     *)
(* reconnect_websocket() raises is an input of run_monitoring_loop: on     *)
(* Gate.io, reconnect() calls disconnect() outside any try, and ws.close() *)
(* may raise after is_connected was cleared.                               *)
(***************************************************************************)

(* A monitoring loop whose except clause leaves the loop. *)
MonitorCatches_and_breaks ==
    /\ mon_pc = "reconnect"
    /\ is_running
    /\ mon_pc' = "stopped"
    /\ UNCHANGED <<is_running, is_connected, transport, subscribed, recv_pc, ping_pc,
                   reconnect_task, backoff, consecutive_failures, failed_run, last_sleep>>
    /\ UNCHANGED <<running, stale_threads, ws_is_connected, pipeline_vars, pure_vars, stop_pc>>

(* run_monitoring_loop: reconnect_websocket() raises an Exception; the     *)
(* except clause counts a failure and sleeps 30 s.                         *)
MonitorCatches ==
    /\ mon_pc = "reconnect"
    /\ is_running
    /\ consecutive_failures' = consecutive_failures + 1
    /\ is_connected' = IF "GATE.IO" \in running THEN FALSE ELSE is_connected
    /\ mon_pc' = "sleep_30"
    /\ UNCHANGED <<is_running, transport, subscribed, recv_pc, ping_pc, reconnect_task,
                   backoff, failed_run, last_sleep>>
    /\ UNCHANGED <<running, stale_threads, ws_is_connected, pipeline_vars, pure_vars, stop_pc>>

SpecMonitor ==
    Init /\ [][NextConn \/ MonitorCatches \/ StopCancelMonitoring \/ StopDisconnect
                  \/ StopReturn]_vars

(* C21: run_monitoring_loop has left its loop only if stop() has cleared   *)
(* is_running and cancelled its task; an exception out of                  *)
(* reconnect_websocket() leaves it in its 30 s sleep, inside the loop.     *)
C21_MonitorEndsOnlyOnStop ==
    /\ [](mon_pc = "stopped" => (~is_running /\ stop_pc # "idle"))
    /\ [][MonitorCatches => mon_pc' = "sleep_30"]_vars

(* C21 witness: reconnect_websocket() raised before any reconnect attempt  *)
(* had failed; the loop is asleep for 30 s and the service is running.     *)
C21_Witness ==
    /\ mon_pc = "sleep_30"
    /\ is_running
    /\ failed_run = 0
    /\ reconnect_task = "none"
    /\ consecutive_failures > 0

(***************************************************************************)
(* The services of the two venues side by side.  Each service object has   *)
(* its own alerted_symbols set and its own websocket client                *)
(* (BaseFairPriceAlertService.__init__, the constructors of the venue      *)
(* services); ws_is_connected[v] is the connection flag of the client of   *)
(* venue v.                                                                *)
(***************************************************************************)
InitVenues ==
    /\ running = Venues
    /\ stale_threads = 0
    /\ ws_is_connected = [v \in Venues |-> TRUE]
    /\ is_running = TRUE
    /\ is_connected = TRUE
    /\ transport = "open"
    /\ subscribed = TRUE
    /\ recv_pc = "top"
    /\ ping_pc = "running"
    /\ reconnect_task = "none"
    /\ backoff = 1
    /\ mon_pc = "check"
    /\ consecutive_failures = 0
    /\ failed_run = 0
    /\ last_sleep = 0
    /\ stop_pc = "idle"
    /\ PipelineIdle /\ PureIdle

(* A ticker message arrives on the connection of venue v. *)
VenueMessage(v, n) ==
    /\ ws_is_connected[v]
    /\ BagCardinality(tasks["MEXC"]) + BagCardinality(tasks["GATE.IO"]) < MaxInFlight
    /\ OnMessage(v, n)

(* The connection of venue v is lost, and every flag is cleared. *)
VenueConnectionLost_clears_all(v) ==
    /\ ws_is_connected[v]
    /\ ws_is_connected' = [w \in Venues |-> FALSE]
    /\ UNCHANGED <<running, stale_threads, pipeline_vars, pure_vars, conn_vars>>

(* The connection of venue v is lost: its client clears its is_connected   *)
(* (MEXC: _message_handler on ConnectionClosed; Gate.io: _on_close).       *)
VenueConnectionLost(v) ==
    /\ ws_is_connected[v]
    /\ ws_is_connected' = [ws_is_connected EXCEPT ![v] = FALSE]
    /\ UNCHANGED <<running, stale_threads, pipeline_vars, pure_vars, conn_vars>>

(* connect() of the client of venue v succeeds again. *)
VenueConnected(v) ==
    /\ ~ws_is_connected[v]
    /\ ws_is_connected' = [ws_is_connected EXCEPT ![v] = TRUE]
    /\ UNCHANGED <<running, stale_threads, pipeline_vars, pure_vars, conn_vars>>

(* Any step of the service of venue v. *)
VenueStep(v) ==
    \/ \E n \in 1 .. MaxBatch : VenueMessage(v, n)
    \/ \E task \in BagToSet(tasks[v]), n \in Tickers[v] : ProcessTicker(v, task, n)
    \/ \E task \in BagToSet(tasks[v]), c \in SentCounts[v] : SendDone(v, task, c)
    \/ \E k \in Keys(v) : _remove_alert_cooldown(v, k)
    \/ VenueConnectionLost(v)
    \/ VenueConnected(v)

SpecVenues == InitVenues /\ [][VenueStep("MEXC") \/ VenueStep("GATE.IO")]_vars

(* C30: cooldowns and connection state are per venue.  A step of the       *)
(* service of one venue (a ticker message, the processing of a ticker, an  *)
(* alert, the expiry of a cooldown, the loss or the return of its          *)
(* connection) leaves the cooldown set, the expiry tasks and the           *)
(* connection flag of the other venue as they are.                         *)
C30_VenuesAreIndependent ==
    [][\A v \in Venues : \A w \in Venues \ {v} :
          \/ /\ alerted_symbols'[w] = alerted_symbols[w]
             /\ cooldown_tasks'[w] = cooldown_tasks[w]
             /\ ws_is_connected'[w] = ws_is_connected[w]
          \/ ~VenueStep(v)]_vars

(* C30 witness: MEXC is in cooldown for an instrument and has lost its     *)
(* connection, while Gate.io, connected and with an empty cooldown set,    *)
(* has triggered an alert.                                                 *)
C30_Witness ==
    /\ alerted_symbols["MEXC"] # {} /\ ~ws_is_connected["MEXC"]
    /\ alerted_symbols["GATE.IO"] = {} /\ ws_is_connected["GATE.IO"]
    /\ \E k \in Keys("GATE.IO") : triggered["GATE.IO"][k] = 1

(***************************************************************************)
(* start().  It returns False when connect_websocket() answers False (the  *)
(* MEXC connect raised; the Gate.io connect timed out, its thread left     *)
(* running), when subscribe_tickers answers False on the connection that   *)
(* was opened, or, after _cleanup_on_failure, when an exception was        *)
(* raised, which only the constructor of the Telegram bot does, before     *)
(* anything was opened.  Otherwise the monitoring task is created and      *)
(* is_running set.                                                         *)
(***************************************************************************)
start(v, outcome) ==
    LET opened == outcome \in {"ok", "subscribe_failed"}
    IN  /\ running = {}
        /\ running' = IF outcome = "raised" THEN running ELSE {v}
        /\ ws_is_connected' = [w \in Venues |-> w = v /\ opened]
        /\ is_running' = (outcome = "ok")
        /\ is_connected' = opened
        /\ transport' = IF opened THEN "open" ELSE transport
        /\ subscribed' = (outcome = "ok")
        /\ recv_pc' = IF opened /\ v = "MEXC" THEN "top" ELSE recv_pc
        /\ ping_pc' = IF opened /\ v = "MEXC" THEN "running" ELSE ping_pc
        /\ mon_pc' = IF outcome = "ok" THEN "check" ELSE mon_pc
        /\ UNCHANGED <<stale_threads, reconnect_task, backoff, consecutive_failures,
                       failed_run, last_sleep, stop_pc, pipeline_vars, pure_vars>>

SpecStart ==
    /\ InitAggregate
    /\ [][\/ \E v \in Venues :
                \E outcome \in {"raised", "connect_failed", "subscribe_failed", "ok"} :
                    start(v, outcome)
          \/ NextConn]_vars

(* C38: a service whose start() returned False is fully stopped:           *)
(* is_running is false, there is no monitoring task, and no connection,    *)
(* ping loop, receive loop or transport thread is alive.                   *)
C38_FailedStartLeavesNothing ==
    (running # {} /\ ~is_running) =>
        /\ mon_pc = "stopped"
        /\ ~is_connected /\ transport # "open"
        /\ ping_pc = "ended" /\ recv_pc = "ended"

====
